---- MODULE Spec2Model ----
(***************************************************************************)
(* Document ingestion and retrieval pipeline of real-vtuber/frontend:      *)
(*   - chunkText / processFile / processSessionFiles (lib/fileProcessor.ts *)
(*     and its copy, the simple processor)                                 *)
(*   - upsertVectors / queryVectors / searchKnowledgeBase /                *)
(*     getRelevantContext (the Pinecone client module)                     *)
(* Texts are sequences of one-character strings; indices in the operators  *)
(* that model JavaScript string methods are 0-based, as in the source.     *)
(***************************************************************************)
EXTENDS Integers, Sequences, FiniteSets, TLC

\* ------------------------------------------------------------------------
\* Bounds of the model
\* ------------------------------------------------------------------------
MaxLen == 5
MaxChunkSize == 4
MaxOverlap == 2

\* The alphabet: a plain character, a blank, and the two characters chunkText
\* looks for as sentence boundaries (the newline is also whitespace).
Chars == {"a", " ", ".", "\n"}

Texts == UNION {[1..n -> Chars] : n \in 0..MaxLen}

ChunkSizes == -1..MaxChunkSize
Overlaps == -1..MaxOverlap

\* ------------------------------------------------------------------------
\* JavaScript string methods used by the chunker
\* ------------------------------------------------------------------------
Max(a, b) == IF a >= b THEN a ELSE b
Min(a, b) == IF a <= b THEN a ELSE b

SetMax(S) == CHOOSE m \in S : \A k \in S : k <= m

\* String.prototype.trim's whitespace, restricted to the alphabet
IsWhitespace(c) == c \in {" ", "\n"}

\* String.prototype.lastIndexOf(ch, position): position is clamped to
\* [0, length - 1]; the greatest index <= position holding ch, or -1
lastIndexOf(t, ch, position) ==
  LET p == Min(Max(position, 0), Len(t) - 1)
      hits == {k \in 0..p : t[k + 1] = ch}
  IN IF hits = {} THEN -1 ELSE SetMax(hits)

\* String.prototype.slice(from, to): a negative index counts from the end
SliceIndex(t, i) == IF i < 0 THEN Max(Len(t) + i, 0) ELSE Min(i, Len(t))

slice(t, from, to) ==
  LET f == SliceIndex(t, from)
      e == SliceIndex(t, to)
  IN IF f < e THEN SubSeq(t, f + 1, e) ELSE <<>>

\* number of whitespace characters at the head / at the tail of t
LeadingWs(t) ==
  LET solid == {k \in 1..Len(t) : ~IsWhitespace(t[k])}
  IN IF solid = {} THEN Len(t) ELSE (CHOOSE m \in solid : \A k \in solid : m <= k) - 1

TrailingWs(t) ==
  LET solid == {k \in 1..Len(t) : ~IsWhitespace(t[k])}
  IN IF solid = {} THEN Len(t) ELSE Len(t) - SetMax(solid)

\* String.prototype.trim
trim(t) ==
  IF LeadingWs(t) = Len(t) THEN <<>>
  ELSE SubSeq(t, LeadingWs(t) + 1, Len(t) - TrailingWs(t))

\* ------------------------------------------------------------------------
\* chunkText, one loop iteration at a time
\* ------------------------------------------------------------------------

\* the early return of chunkText: the text itself, as the only chunk
ShortResultTrimmed(t) == <<trim(t)>>

ShortResult(t) == <<t>>

\* breakPoint of the window that starts at s and would end at e
BreakPoint(t, e) == Max(lastIndexOf(t, ".", e), lastIndexOf(t, "\n", e))

\* end of the window that starts at s: start + chunkSize capped at the length,
\* moved to just after the last sentence boundary when that boundary lies
\* beyond the middle of the window (breakPoint > start + chunkSize * 0.5)
WindowEnd(t, s, cs) ==
  LET e == Min(s + cs, Len(t))
  IN IF e < Len(t) /\ 2 * BreakPoint(t, e) > 2 * s + cs
       THEN BreakPoint(t, e) + 1
       ELSE e

\* start of the next window
NextStartNoFloor(e, ov, s) == e - ov

NextStartGap(e, ov, s) == Max(e + ov + 1, s + 1)

NextStart(e, ov, s) == Max(e - ov, s + 1)

\* the chunk a window yields: text.slice(start, end).trim()
WindowChunk(t, s, e) == trim(slice(t, s, e))

\* the chunks list after the window's chunk was pushed, or skipped as empty
PushChunk(cl, c) == IF Len(c) > 0 THEN Append(cl, c) ELSE cl

RECURSIVE ChunkLoop(_, _, _, _, _)
ChunkLoop(t, cs, ov, s, cl) ==
  IF s < Len(t)
    THEN LET e == WindowEnd(t, s, cs)
         IN ChunkLoop(t, cs, ov, NextStart(e, ov, s), PushChunk(cl, WindowChunk(t, s, e)))
    ELSE cl

\* chunkText as a function of its arguments
chunkText(t, cs, ov) ==
  IF Len(t) <= cs THEN ShortResult(t) ELSE ChunkLoop(t, cs, ov, 0, <<>>)

VARIABLES
  text,        \* chunkText's argument text
  chunkSize,   \* chunkText's argument chunkSize
  overlap,     \* chunkText's argument overlap
  start,       \* chunkText's local start
  chunks,      \* chunkText's local chunks (the result once cpc = "done")
  windows,     \* the windows cut so far: [start, end, chunk], in order
  cpc          \* where the call is: "idle", "call", "loop", "done"

chunkVars == <<text, chunkSize, overlap, start, chunks, windows, cpc>>

\* ------------------------------------------------------------------------
\* The session's file area and the ingestion calls
\* ------------------------------------------------------------------------
VARIABLES
  uploads,        \* the uploads folder: file name -> what the file holds
  processed,      \* the processed folder: file name -> manifest (<name>.json)
  chunkFiles,     \* processed/chunks: chunk id -> chunk (<id>.json)
  sessionId,      \* the sessionId the ingestion calls are made with
  ppc,            \* processSessionFiles: "idle", "loop", "done", "threw"
  files,          \* processSessionFiles' local files (the listing)
  fileIdx,        \* position of the for loop in files (1-based)
  processedDocs,  \* processSessionFiles' local processedDocs
  outcomes,       \* what each processFile call so far returned or threw
  single          \* outcome of a processFile call made on its own

fileVars == <<uploads, processed, chunkFiles, sessionId, ppc, files, fileIdx,
              processedDocs, outcomes, single>>

\* ------------------------------------------------------------------------
\* The vector index and the retrieval calls
\* ------------------------------------------------------------------------
VARIABLES
  vectorIndex,  \* the records stored in the index: [ns, id, values, metadata?]
  upserts,      \* number of upsertVectors calls made
  rpc,          \* the call: "idle", "embed", "loop", "backoff", "returned", "threw"
  caller,       \* "query": queryVectors called directly; "context": getRelevantContext
  rSession,     \* the sessionId (or namespace) argument; "" when not given
  maxContexts,  \* getRelevantContext's argument maxContexts
  retries,      \* queryVectors' argument retries
  query,        \* what queryVectors was called with: [namespace, topK, filter]
  attempt,      \* queryVectors' loop variable attempt
  attemptLog,   \* the attempts made so far, with how each ended, in order
  waits,        \* the backoff waits made so far, in milliseconds
  inflight,     \* attempts whose index query is still outstanding although
                \* queryVectors stopped awaiting it (it lost the race)
  embedded,     \* how the embedding of the topic ended ("none" before it)
  qResult,      \* how queryVectors ended: returned (a value) or threw
  result        \* how the called function ended: returned (a value) or threw

retrVars == <<vectorIndex, upserts, rpc, caller, rSession, maxContexts, retries, query,
              attempt, attemptLog, waits, inflight, embedded, qResult, result>>

\* ------------------------------------------------------------------------
\* The embedding provider and the calls of generateEmbeddings
\* ------------------------------------------------------------------------
VARIABLES
  eTexts,         \* generateEmbeddings' argument texts
  ei,             \* its loop variable i (0-based offset into texts)
  allEmbeddings,  \* its local allEmbeddings
  requests,       \* the embed requests the provider has received, in order
  epc,            \* the call: "idle", "loop", "delay", "returned", "threw"
  eResult         \* how the call ended: returned (a value) or threw

embedVars == <<eTexts, ei, allEmbeddings, requests, epc, eResult>>

\* ------------------------------------------------------------------------
\* The index service and the calls of getOrCreateIndex
\* ------------------------------------------------------------------------
VARIABLES
  indexes,     \* the service's indexes: name -> [dimension, ready]
  gpc,         \* per caller, where its getOrCreateIndex call is
  gName,       \* per caller, the indexName it was called with
  existing,    \* per caller, its local existingIndex (found in the listing?)
  creates,     \* the createIndex requests the service has received, in order
  gLog,        \* how the calls made so far ended, in order
  gCalls,      \* per caller, the number of its current call (0 before any)
  lastUpsert   \* the last upsert request the index received and its outcome

indexVars == <<indexes, gpc, gName, existing, creates, gLog, gCalls>>

\* ------------------------------------------------------------------------
\* The API routes
\* ------------------------------------------------------------------------
VARIABLES
  route,          \* the route handling a request ("none" when there is none)
  request,        \* the request's body
  scriptContext,  \* the knowledgeContext handed to the script generator
  response        \* the response sent (Pending until one is)

routeVars == <<route, request, scriptContext, response>>

svcVars == <<embedVars, indexVars, lastUpsert, routeVars>>

vars == <<chunkVars, fileVars, retrVars, svcVars>>

ChunkIdle ==
  /\ text = <<>> /\ chunkSize = 0 /\ overlap = 0 /\ start = 0
  /\ chunks = <<>> /\ windows = <<>> /\ cpc = "idle"

\* a call chunkText(text, chunkSize, overlap) is made
ChunkInit ==
  /\ text \in Texts
  /\ chunkSize \in ChunkSizes
  /\ overlap \in Overlaps
  /\ start = 0 /\ chunks = <<>> /\ windows = <<>> /\ cpc = "call"

\* if (text.length <= chunkSize) return [text]
ChunkShort ==
  /\ cpc = "call"
  /\ Len(text) <= chunkSize
  /\ chunks' = ShortResult(text)
  /\ cpc' = "done"
  /\ UNCHANGED <<text, chunkSize, overlap, start, windows, fileVars, retrVars, svcVars>>

\* const chunks = []; let start = 0
ChunkEnter ==
  /\ cpc = "call"
  /\ Len(text) > chunkSize
  /\ chunks' = <<>> /\ start' = 0
  /\ cpc' = "loop"
  /\ UNCHANGED <<text, chunkSize, overlap, windows, fileVars, retrVars, svcVars>>

\* one iteration of while (start < text.length)
ChunkIter ==
  /\ cpc = "loop"
  /\ start < Len(text)
  /\ LET e == WindowEnd(text, start, chunkSize)
         c == WindowChunk(text, start, e)
     IN /\ chunks' = PushChunk(chunks, c)
        /\ windows' = Append(windows, [start |-> start, end |-> e, chunk |-> c])
        /\ start' = NextStart(e, overlap, start)
  /\ UNCHANGED <<text, chunkSize, overlap, cpc, fileVars, retrVars, svcVars>>

\* the loop condition fails: return chunks
ChunkExit ==
  /\ cpc = "loop"
  /\ start >= Len(text)
  /\ cpc' = "done"
  /\ UNCHANGED <<text, chunkSize, overlap, start, chunks, windows, fileVars, retrVars, svcVars>>

ChunkNext == ChunkShort \/ ChunkEnter \/ ChunkIter \/ ChunkExit

\* Long texts, to count iterations against len / (chunkSize - overlap): one
\* text per length and per filling (no boundary at all, or a boundary at
\* every position), every chunkSize >= 1 and every overlap around it
MaxLongLen == 17

LongTexts == {[i \in 1..n |-> ch] : n \in 0..MaxLongLen, ch \in {"a", "."}}

LongChunkInit ==
  /\ text \in LongTexts
  /\ chunkSize \in 1..(MaxLongLen - 1)
  /\ overlap \in -1..MaxLongLen
  /\ start = 0 /\ chunks = <<>> /\ windows = <<>> /\ cpc = "call"

\* ------------------------------------------------------------------------
\* processFile and processSessionFiles
\* ------------------------------------------------------------------------
FileNames == {"a.txt", "b.md", "c.csv"}

SessionIds == {"sessA", "sessB"}

\* what a directory entry of the uploads folder can be
Absent == [kind |-> "absent"]

Unreadable == [kind |-> "unreadable"]

TextFile(t) == [kind |-> "text", text |-> t]

\* path.extname(fileName).toLowerCase()
extname(f) ==
  CASE f = "a.txt" -> ".txt"
    [] f = "b.md" -> ".md"
    [] f = "c.csv" -> ".csv"
    [] f = "d.pdf" -> ".pdf"
    [] f = "chunks.txt" -> ".txt"
    [] OTHER -> ""

\* processFile calls chunkText(text, 1000, 200); the model keeps the two
\* numbers in proportion to the lengths of its texts: the longest texts are
\* cut into several windows, and overlap / chunkSize is 1/5, rounded up
ProcChunkSize == MaxLen - 1

ProcOverlap == (ProcChunkSize * 200 + 999) \div 1000

\* content.trim().split(/\s+/).length
wordCount(t) ==
  LET c == trim(t)
  IN IF c = <<>> THEN 1
     ELSE Cardinality({k \in 1..Len(c) :
            ~IsWhitespace(c[k]) /\ (k = 1 \/ IsWhitespace(c[k - 1]))})

\* `${sessionId}_${fileName}_chunk_${index}`
ChunkIdNoIndex(sid, f, index) == sid \o "_" \o f \o "_chunk"

ChunkId(sid, f, index) == sid \o "_" \o f \o "_chunk_" \o ToString(index)

\* the DocumentChunk built from textChunks[index] (index is 0-based)
DocumentChunkOneBased(sid, f, textChunks, index) ==
  [id |-> ChunkId(sid, f, index),
   content |-> trim(textChunks[index + 1]),
   metadata |-> [fileName |-> f,
                 fileType |-> extname(f),
                 chunkIndex |-> index + 1,
                 totalChunks |-> Len(textChunks),
                 sessionId |-> sid,
                 sourceFile |-> f,
                 wordCount |-> wordCount(textChunks[index + 1])]]

DocumentChunk(sid, f, textChunks, index) ==
  [id |-> ChunkId(sid, f, index),
   content |-> trim(textChunks[index + 1]),
   metadata |-> [fileName |-> f,
                 fileType |-> extname(f),
                 chunkIndex |-> index,
                 totalChunks |-> Len(textChunks),
                 sessionId |-> sid,
                 sourceFile |-> f,
                 wordCount |-> wordCount(textChunks[index + 1])]]

\* the ProcessedDocument of a file whose text parsed to t
ProcessedDocument(sid, f, t) ==
  LET textChunks == chunkText(t, ProcChunkSize, ProcOverlap)
      docChunks == [i \in 1..Len(textChunks) |-> DocumentChunk(sid, f, textChunks, i - 1)]
  IN [fileName |-> f,
      fileType |-> extname(f),
      originalSize |-> Len(t),
      chunks |-> docChunks,
      totalChunks |-> Len(docChunks),
      sessionId |-> sid]

\* fs.stat then parseFile: the text, or the error thrown
ParseOutcome(entry) ==
  CASE entry.kind = "absent" -> [ok |-> FALSE, error |-> "ENOENT: no such file or directory"]
    [] entry.kind = "unreadable" -> [ok |-> FALSE, error |-> "Failed to parse text file"]
    [] OTHER -> [ok |-> TRUE, text |-> entry.text]

\* A PDF in the uploads folder, with what the run finds when it parses it:
\* whether isPDFParsingAvailable answers true, whether fs.readFile gives the
\* bytes, whether parsePDFFile can import pdf-parse, and what pdfParse does
PdfFile(available, readable, importable, extraction) ==
  [kind |-> "pdf", available |-> available, readable |-> readable,
   importable |-> importable, extraction |-> extraction]

\* pdfParse rejects, or resolves to pdfData with text and numpages
ExtractionFails == [ok |-> FALSE, message |-> "Invalid PDF structure"]

Extracted(t, numpages) == [ok |-> TRUE, text |-> t, numpages |-> numpages]

\* The sentinel texts. A text is a sequence of atoms: single characters, and
\* in a sentinel the fragments of its template, the file's name being one.
UnavailableSentinel(f) ==
  <<"[PDF file: ", f, " - PDF parsing library not available. Please install pdf-parse.]">>

ErrorSentinel(f, errorMessage) ==
  <<"[PDF Parsing Error: ", f,
    "] - " \o errorMessage \o ". The PDF file could not be processed. Please ensure the file is not corrupted and pdf-parse is properly installed.">>

\* parsePDFFile's catch: the sentinel, with pages = 1
PdfCatchRethrows(f, errorMessage) == [ok |-> FALSE, error |-> errorMessage]

PdfCatch(f, errorMessage) == [ok |-> TRUE, text |-> ErrorSentinel(f, errorMessage), pages |-> 1]

\* parsePDFFile: read the file, import pdf-parse, parse; text: pdfData.text
\* || '', pages: pdfData.numpages || 1
parsePDFFile(f, entry) ==
  IF ~entry.readable THEN PdfCatch(f, "EACCES: permission denied")
  ELSE IF ~entry.importable THEN PdfCatch(f, "PDF parsing library is not available")
  ELSE IF ~entry.extraction.ok THEN PdfCatch(f, entry.extraction.message)
  ELSE [ok |-> TRUE, text |-> entry.extraction.text,
        pages |-> IF entry.extraction.numpages = 0 THEN 1 ELSE entry.extraction.numpages]

\* parsePDF: the sentinel when the library is not available, else
\* parsePDFFile's result (neither call inside its try throws)
parsePDF(f, entry) ==
  IF ~entry.available
    THEN [ok |-> TRUE, text |-> UnavailableSentinel(f), pages |-> 1]
    ELSE parsePDFFile(f, entry)

\* fs.stat, then parseFile: by the extension, parsePDF or parseTextFile
parseFile(f, entry) ==
  IF extname(f) = ".pdf" /\ entry.kind = "pdf" THEN parsePDF(f, entry)
  ELSE ParseOutcome(entry)

\* A run of processFile(sid, f, ...) on the folder entry `entry`, in which
\* write number `fault` fails (0: none; 1: the manifest; k + 1: the side-file
\* of chunk k). Returns what the call returned or threw, and what it wrote
\* before that: the manifest (if written) and the chunks whose side-files
\* were written.
Thrown(f, msg, wroteManifest, doc, nWritten) ==
  [fileName |-> f, ok |-> FALSE, error |-> msg,
   wroteManifest |-> wroteManifest, doc |-> doc, nWritten |-> nWritten]

processFilePersistsFirst(sid, f, entry, fault) ==
  LET parsed == parseFile(f, entry)
  IN IF ~parsed.ok THEN Thrown(f, parsed.error, FALSE, <<>>, 0)
     ELSE IF Len(trim(parsed.text)) = 0
       THEN Thrown(f, "No text content found in file", TRUE,
                   ProcessedDocument(sid, f, parsed.text), 0)
     ELSE LET doc == ProcessedDocument(sid, f, parsed.text)
          IN [fileName |-> f, ok |-> TRUE, error |-> "",
              wroteManifest |-> TRUE, doc |-> doc, nWritten |-> Len(doc.chunks)]

processFile(sid, f, entry, fault) ==
  LET parsed == parseFile(f, entry)
  IN IF ~parsed.ok THEN Thrown(f, parsed.error, FALSE, <<>>, 0)
     ELSE IF Len(trim(parsed.text)) = 0
       THEN Thrown(f, "No text content found in file", FALSE, <<>>, 0)
     ELSE LET doc == ProcessedDocument(sid, f, parsed.text)
          IN IF fault = 1 THEN Thrown(f, "write failed", FALSE, <<>>, 0)
             ELSE IF fault >= 2 /\ fault <= Len(doc.chunks) + 1
               THEN Thrown(f, "write failed", TRUE, doc, fault - 2)
             ELSE [fileName |-> f, ok |-> TRUE, error |-> "",
                   wroteManifest |-> TRUE, doc |-> doc, nWritten |-> Len(doc.chunks)]

\* the writes a processFile run can see fail: none, the manifest, or one
\* chunk side-file
Faults(entry) ==
  IF entry.kind = "text" /\ Len(trim(entry.text)) > 0
    THEN 0..(Len(chunkText(entry.text, ProcChunkSize, ProcOverlap)) + 1)
    ELSE {0}

\* the processed folder after a run: fs.writeFile(<fileName>.json)
WriteManifest(m, r) ==
  IF r.wroteManifest
    THEN [x \in DOMAIN m \cup {r.fileName} |-> IF x = r.fileName THEN r.doc ELSE m[x]]
    ELSE m

\* processed/chunks after a run: fs.writeFile(<chunk.id>.json) per chunk
WriteChunks(cf, r) ==
  LET new == {r.doc.chunks[i].id : i \in 1..r.nWritten}
  IN IF r.nWritten = 0 THEN cf
     ELSE [x \in DOMAIN cf \cup new |->
             IF x \in new
               THEN r.doc.chunks[CHOOSE i \in 1..r.nWritten : r.doc.chunks[i].id = x]
               ELSE cf[x]]

\* sample folder entries of the whole-session runs: a missing file, one that
\* cannot be read, a blank one, a one-chunk one and one cut into several
BlankText == <<" ", "\n">>

ShortText == <<"a", ".">>

LongText == [i \in 1..MaxLen |-> IF i = 3 THEN " " ELSE "a"]

SampleEntries == {Absent, Unreadable, TextFile(BlankText), TextFile(ShortText), TextFile(LongText)}

\* every order in which readdir can list the names in S
Listings(S) ==
  {l \in [1..Cardinality(S) -> S] : \A i, j \in 1..Cardinality(S) : l[i] = l[j] => i = j}

NoCall == [called |-> FALSE]

BatchIdle ==
  /\ ppc = "idle" /\ files = <<>> /\ fileIdx = 1
  /\ processedDocs = <<>> /\ outcomes = <<>>

FilesIdle ==
  /\ uploads = [f \in FileNames |-> Absent]
  /\ processed = <<>> /\ chunkFiles = <<>>
  /\ sessionId = "sessA"
  /\ BatchIdle
  /\ single = NoCall

\* a session folder with some uploads and nothing processed yet
FilesInit ==
  /\ uploads \in [FileNames -> SampleEntries]
  /\ processed = <<>> /\ chunkFiles = <<>>
  /\ sessionId \in SessionIds
  /\ BatchIdle
  /\ single = NoCall

\* processSessionFiles: mkdir(processedPath), files = readdir(uploadsPath)
PSFList ==
  /\ ppc = "idle"
  /\ files' \in Listings({f \in FileNames : uploads[f] # Absent})
  /\ fileIdx' = 1
  /\ processedDocs' = <<>>
  /\ ppc' = "loop"
  /\ UNCHANGED <<uploads, processed, chunkFiles, sessionId, outcomes, single, chunkVars, retrVars, svcVars>>

\* mkdir or readdir fails: the outer catch logs and rethrows
PSFListFails ==
  /\ ppc = "idle"
  /\ ppc' = "threw"
  /\ UNCHANGED <<uploads, processed, chunkFiles, sessionId, files, fileIdx,
                 processedDocs, outcomes, single, chunkVars, retrVars, svcVars>>

\* the loop's state after processFile threw for the file at idx: the inner
\* catch logs the error and the loop continues with the next file
AfterFailureAbort(idx, docs) == [ppc |-> "threw", fileIdx |-> idx, docs |-> docs]

AfterFailure(idx, docs) == [ppc |-> "loop", fileIdx |-> idx + 1, docs |-> docs]

\* the loop's state after processFile returned doc for the file at idx
AfterSuccess(idx, docs, doc) ==
  [ppc |-> "loop", fileIdx |-> idx + 1, docs |-> Append(docs, doc)]

\* one iteration of for (const fileName of files)
PSFFile ==
  /\ ppc = "loop"
  /\ fileIdx <= Len(files)
  /\ \E fault \in Faults(uploads[files[fileIdx]]) :
       LET r == processFile(sessionId, files[fileIdx], uploads[files[fileIdx]], fault)
           after == IF r.ok THEN AfterSuccess(fileIdx, processedDocs, r.doc)
                    ELSE AfterFailure(fileIdx, processedDocs)
       IN /\ processed' = WriteManifest(processed, r)
          /\ chunkFiles' = WriteChunks(chunkFiles, r)
          /\ outcomes' = Append(outcomes, r)
          /\ ppc' = after.ppc
          /\ fileIdx' = after.fileIdx
          /\ processedDocs' = after.docs
  /\ UNCHANGED <<uploads, sessionId, files, single, chunkVars, retrVars, svcVars>>

\* the loop is over: return processedDocs
PSFReturn ==
  /\ ppc = "loop"
  /\ fileIdx > Len(files)
  /\ ppc' = "done"
  /\ UNCHANGED <<uploads, processed, chunkFiles, sessionId, files, fileIdx,
                 processedDocs, outcomes, single, chunkVars, retrVars, svcVars>>

FilesNext == PSFList \/ PSFListFails \/ PSFFile \/ PSFReturn

\* a call of processFile on its own (the route's process_single)
ProcessSingle ==
  /\ single = NoCall
  /\ \E f \in DOMAIN uploads : \E fault \in Faults(uploads[f]) :
       LET r == processFile(sessionId, f, uploads[f], fault)
       IN /\ processed' = WriteManifest(processed, r)
          /\ chunkFiles' = WriteChunks(chunkFiles, r)
          /\ single' = [called |-> TRUE, result |-> r]
  /\ UNCHANGED <<uploads, sessionId, ppc, files, fileIdx, processedDocs, outcomes, chunkVars, retrVars, svcVars>>

\* a session folder that holds one file, with any text
ProcessFileInit ==
  /\ \E entry \in {Absent, Unreadable} \cup {TextFile(t) : t \in Texts} :
       uploads = [f \in FileNames |-> IF f = "a.txt" THEN entry ELSE Absent]
  /\ processed = <<>> /\ chunkFiles = <<>>
  /\ sessionId \in SessionIds
  /\ BatchIdle
  /\ single = NoCall

ProcessFileNext == ProcessSingle

\* a session folder that holds one file, of one of the sample kinds
ReprocessInit ==
  /\ \E f \in FileNames, entry \in SampleEntries :
       uploads = [g \in FileNames |-> IF g = f THEN entry ELSE Absent]
  /\ processed = <<>> /\ chunkFiles = <<>>
  /\ sessionId \in SessionIds
  /\ BatchIdle
  /\ single = NoCall

\* the file that was processed is uploaded again, with the same name and any
\* content (the upload route overwrites uploads/<fileName>), or is removed
ReUpload ==
  /\ single # NoCall
  /\ outcomes = <<>>
  /\ \E entry \in SampleEntries :
       /\ entry # uploads[single.result.fileName]
       /\ uploads' = [uploads EXCEPT ![single.result.fileName] = entry]
  /\ UNCHANGED <<processed, chunkFiles, sessionId, ppc, files, fileIdx, processedDocs,
                 outcomes, single, chunkVars, retrVars, svcVars>>

\* processFile is called a second time for the same sessionId and fileName
ProcessAgain ==
  /\ single # NoCall
  /\ outcomes = <<>>
  /\ LET f == single.result.fileName
     IN \E fault \in Faults(uploads[f]) :
          LET r == processFile(sessionId, f, uploads[f], fault)
          IN /\ processed' = WriteManifest(processed, r)
             /\ chunkFiles' = WriteChunks(chunkFiles, r)
             /\ outcomes' = <<r>>
  /\ UNCHANGED <<uploads, sessionId, ppc, files, fileIdx, processedDocs, single,
                 chunkVars, retrVars, svcVars>>

ReprocessNext == ProcessSingle \/ ReUpload \/ ProcessAgain

\* the PDFs of the model: every combination of what parsing can run into
PdfNames == {"d.pdf"}

PdfTexts == {<<>>, BlankText, ShortText, LongText}

PdfEntries ==
  {PdfFile(a, r, i, x) :
     a \in BOOLEAN, r \in BOOLEAN, i \in BOOLEAN,
     x \in {ExtractionFails} \cup {Extracted(t, n) : t \in PdfTexts, n \in 0..2}}

\* a session folder that holds one PDF
ParseInit ==
  /\ uploads \in [PdfNames -> PdfEntries]
  /\ processed = <<>> /\ chunkFiles = <<>>
  /\ sessionId \in SessionIds
  /\ BatchIdle
  /\ single = NoCall

\* ------------------------------------------------------------------------
\* upsertVectors, queryVectors, searchKnowledgeBase, getRelevantContext
\* ------------------------------------------------------------------------
MaxUpserts == 2
MaxRetries == 3
MaxContexts == 2

\* queryVectors' defaults: topK = 5, retries = 3
DefaultTopK == 5

DefaultRetries == 3

\* getRelevantContext keeps the matches with score > 0.7; scores are counted
\* in hundredths
ScoreThreshold == 70

\* createIndex's dimension: 1536 in the source; the model's vectors are
\* scaled down to this length
Dimension == 2

\* the scores the index may give a match; it may also give none
Scores == {70, 90}

\* an optional sessionId or namespace argument: "" stands for one that is not
\* given (undefined and '' are both falsy)
SessionArgs == SessionIds \cup {""}

\* the vectors a caller may upsert: two with full metadata, one with neither
\* fileName nor content, one with no metadata; and two whose length is not
\* the index's dimension: the empty vector generateEmbeddings gives for an
\* item without values, and a short one
Vectors ==
  {[id |-> "sessA_a.txt_chunk_0", values |-> <<1, 0>>,
    metadata |-> [fileName |-> "a.txt", sessionId |-> "sessA", content |-> "alpha"]],
   [id |-> "sessA_b.md_chunk_0", values |-> <<1, 0>>,
    metadata |-> [fileName |-> "b.md", sessionId |-> "sessA", content |-> "gamma"]],
   [id |-> "sessB_b.md_chunk_0", values |-> <<0, 1>>,
    metadata |-> [sessionId |-> "sessB"]],
   [id |-> "plain", values |-> <<1, 1>>],
   [id |-> "sparse", values |-> <<>>],
   [id |-> "short", values |-> <<1>>]}

\* obj.key || fallback, for a key the object may lack
Field(obj, key, fallback) == IF key \in DOMAIN obj THEN obj[key] ELSE fallback

\* the namespace a call addresses: index.namespace(namespace || '')
NamespaceOf(ns) == IF ns = "" THEN "" ELSE ns

\* the index after index.namespace(ns).upsert([v]): a record with the same id
\* in that namespace is overwritten
Stored(ns, v) ==
  IF "metadata" \in DOMAIN v
    THEN [ns |-> ns, id |-> v.id, values |-> v.values, metadata |-> v.metadata]
    ELSE [ns |-> ns, id |-> v.id, values |-> v.values]

\* the index answers an upsert of a vector whose length is not its dimension
\* with an error, and stores nothing
Accepts(v) == Len(v.values) = Dimension

\* the request upsertVectors sends: index.namespace(namespace || '').upsert(vectors)
UpsertRequest(v, namespace) ==
  [sent |-> TRUE, namespace |-> NamespaceOf(namespace), length |-> Len(v.values),
   accepted |-> Accepts(v)]

upsertVectors(idx, v, namespace) ==
  IF Accepts(v)
    THEN {r \in idx : ~(r.ns = NamespaceOf(namespace) /\ r.id = v.id)}
           \cup {Stored(NamespaceOf(namespace), v)}
    ELSE idx

NoFilter == [none |-> TRUE]

SessionFilter(sid) == [sessionId |-> sid]

\* the records a query of namespace ns under filter can match
Eligible(idx, ns, filter) ==
  {r \in idx :
     /\ r.ns = NamespaceOf(ns)
     /\ \/ filter = NoFilter
        \/ /\ "metadata" \in DOMAIN r
           /\ "sessionId" \in DOMAIN r.metadata
           /\ r.metadata.sessionId = filter.sessionId}

\* a match as the index returns it (includeValues: false, includeMetadata:
\* true), with a score or without one
ScoreChoices == {[given |-> FALSE]} \cup {[given |-> TRUE, score |-> sc] : sc \in Scores}

Match(r, choice) ==
  LET base == IF "metadata" \in DOMAIN r
                THEN [id |-> r.id, metadata |-> r.metadata]
                ELSE [id |-> r.id]
  IN IF ~choice.given THEN base
     ELSE [k \in DOMAIN base \cup {"score"} |-> IF k = "score" THEN choice.score ELSE base[k]]

\* the responses the index may give to a query: up to topK of the eligible
\* records, each once, in any order and with any scores
Responses(idx, q) ==
  LET E == Eligible(idx, q.namespace, q.filter)
      M == {Match(r, choice) : r \in E, choice \in ScoreChoices}
      most == Min(Max(q.topK, 0), Cardinality(E))
  IN {[matches |-> l] :
        l \in UNION {{m \in [1..k -> M] : \A i, j \in 1..k : m[i].id = m[j].id => i = j}
                      : k \in 0..most}}

\* what searchKnowledgeBase calls queryVectors with
SearchQueryNoNamespace(sid, topK) ==
  [namespace |-> "",
   topK |-> topK,
   filter |-> IF sid # "" THEN SessionFilter(sid) ELSE NoFilter]

SearchQuery(sid, topK) ==
  [namespace |-> IF sid # "" THEN sid ELSE "",
   topK |-> topK,
   filter |-> IF sid # "" THEN SessionFilter(sid) ELSE NoFilter]

\* for (let attempt = 1; attempt <= retries; attempt++)
LoopGuardOffByOne(a, n) == a <= n + 1

LoopGuard(a, n) == a <= n

\* if (attempt === retries) throw error
LastAttempt(a, n) == a = n

\* Math.pow(2, attempt) * 1000
BackoffFromZero(a) == (2 ^ (a - 1)) * 1000

Backoff(a) == (2 ^ a) * 1000

Returned(v) == [kind |-> "returned", value |-> v]

Threw(e) == [kind |-> "threw", error |-> e]

Pending == [kind |-> "pending"]

Undefined == [undefined |-> TRUE]

\* searchKnowledgeBase's formatting of the matches of a response
FormatMatch(m) ==
  [id |-> Field(m, "id", ""),
   score |-> Field(m, "score", 0),
   content |-> Field(Field(m, "metadata", <<>>), "content", ""),
   metadata |-> Field(m, "metadata", <<>>)]

FormatMatches(resp) == [i \in 1..Len(resp.matches) |-> FormatMatch(resp.matches[i])]

\* getRelevantContext's filter: match.score > 0.7
ScoreGateInclusive(m) == m.score >= ScoreThreshold

ScoreGate(m) == m.score > ScoreThreshold

\* `[Source: ${fileName}]\n${content}`
ContextOf(m) ==
  "[Source: " \o Field(m.metadata, "fileName", "Unknown source") \o "]\n" \o m.content

\* .filter(score > 0.7).slice(0, maxContexts).map(format)
Contexts(matches, n) ==
  LET kept == SelectSeq(matches, ScoreGate)
      cut == SubSeq(kept, 1, Min(n, Len(kept)))
  IN [i \in 1..Len(cut) |-> ContextOf(cut[i])]

\* getRelevantContext's catch: log, and return [] instead of throwing
CatchRethrows(e) == Threw(e)

Catch(e) == Returned(<<>>)

RetrIdle ==
  /\ vectorIndex = {} /\ upserts = 0
  /\ rpc = "idle" /\ caller = "none"
  /\ rSession = "" /\ maxContexts = 0 /\ retries = 0
  /\ query = [namespace |-> "", topK |-> 0, filter |-> NoFilter]
  /\ attempt = 0 /\ attemptLog = <<>> /\ waits = <<>> /\ inflight = {}
  /\ embedded = "none"
  /\ qResult = Pending /\ result = Pending

callVars == <<caller, rSession, maxContexts, retries, query, attempt, attemptLog,
              waits, inflight, embedded, qResult, result>>

callerVars == <<caller, rSession, maxContexts, retries, query, attempt, attemptLog,
                waits, embedded, qResult, result>>

\* upsertVectors(indexName, [v], namespace)
Upsert ==
  /\ rpc = "idle"
  /\ upserts < MaxUpserts
  /\ \E v \in Vectors, namespace \in SessionArgs :
       /\ vectorIndex' = upsertVectors(vectorIndex, v, namespace)
       /\ lastUpsert' = UpsertRequest(v, namespace)
  /\ upserts' = upserts + 1
  /\ UNCHANGED <<rpc, callVars, chunkVars, fileVars, embedVars, indexVars, routeVars>>

\* queryVectors(indexName, queryVector, topK, namespace, filter, retries) is
\* called on its own
QVCall ==
  /\ rpc = "idle"
  /\ caller' = "query"
  /\ rSession' \in SessionArgs
  /\ retries' \in 0..MaxRetries
  /\ query' = [namespace |-> rSession', topK |-> DefaultTopK, filter |-> NoFilter]
  /\ attempt' = 1
  /\ rpc' = "loop"
  /\ UNCHANGED <<vectorIndex, upserts, inflight, maxContexts, attemptLog, waits, embedded,
                 qResult, result, chunkVars, fileVars, svcVars>>

\* getRelevantContext(topic, sessionId, maxContexts) is called
GRCCall ==
  /\ rpc = "idle"
  /\ caller' = "context"
  /\ rSession' \in SessionArgs
  /\ maxContexts' \in 0..MaxContexts
  /\ rpc' = "embed"
  /\ UNCHANGED <<vectorIndex, upserts, inflight, retries, query, attempt, attemptLog, waits,
                 embedded, qResult, result, chunkVars, fileVars, svcVars>>

\* searchKnowledgeBase: generateEmbeddings([query]) throws, returns no
\* embedding, or returns an empty vector: the error reaches getRelevantContext
EmbedFails ==
  /\ rpc = "embed"
  /\ embedded' \in {"threw", "noEmbeddings", "emptyVector"}
  /\ result' = Catch("Knowledge search failed")
  /\ rpc' = result'.kind
  /\ UNCHANGED <<vectorIndex, upserts, inflight, caller, rSession, maxContexts, retries, query,
                 attempt, attemptLog, waits, qResult, chunkVars, fileVars, svcVars>>

\* searchKnowledgeBase: the query vector is there; queryVectors is called with
\* topK = maxContexts * 2, the session's namespace and filter, default retries
EmbedOk ==
  /\ rpc = "embed"
  /\ embedded' = "ok"
  /\ query' = SearchQuery(rSession, maxContexts * 2)
  /\ retries' = DefaultRetries
  /\ attempt' = 1
  /\ rpc' = "loop"
  /\ UNCHANGED <<vectorIndex, upserts, inflight, caller, rSession, maxContexts, attemptLog,
                 waits, qResult, result, chunkVars, fileVars, svcVars>>

\* how the called function ends once queryVectors has ended with qr
Outcome(qr) ==
  IF caller = "query" THEN qr
  ELSE IF qr.kind = "threw" THEN Catch("Knowledge search failed")
  ELSE IF qr.value = Undefined THEN Catch("Knowledge search failed")
  ELSE Returned(Contexts(FormatMatches(qr.value), maxContexts))

\* an attempt succeeds: its response is returned
AttemptOk ==
  /\ rpc = "loop"
  /\ LoopGuard(attempt, retries)
  /\ \E resp \in Responses(vectorIndex, query) :
       /\ attemptLog' = Append(attemptLog, [attempt |-> attempt, kind |-> "ok", response |-> resp])
       /\ qResult' = Returned(resp)
       /\ result' = Outcome(Returned(resp))
  /\ rpc' = result'.kind
  /\ UNCHANGED <<vectorIndex, upserts, inflight, caller, rSession, maxContexts, retries, query,
                 attempt, waits, embedded, chunkVars, fileVars, svcVars>>

\* what Promise.race leaves behind when an attempt ends: the query that
\* rejected has settled, the one that lost the race to the timer has not
\* (the race settles on the timer's rejection and nothing aborts the query)
AfterRaceAborts(out, a, kind) == out

AfterRace(out, a, kind) == IF kind = "timeout" THEN out \cup {a} ELSE out

\* an attempt fails, by an error of the index or by the 20 s timeout: the
\* last attempt's error is thrown, an earlier one is followed by a wait
AttemptFails ==
  /\ rpc = "loop"
  /\ LoopGuard(attempt, retries)
  /\ \E kind \in {"error", "timeout"} :
       /\ attemptLog' = Append(attemptLog, [attempt |-> attempt, kind |-> kind])
       /\ inflight' = AfterRace(inflight, attempt, kind)
       /\ IF LastAttempt(attempt, retries)
            THEN /\ qResult' = Threw([attempt |-> attempt, kind |-> kind])
                 /\ result' = Outcome(qResult')
                 /\ rpc' = result'.kind
                 /\ waits' = waits
            ELSE /\ waits' = Append(waits, Backoff(attempt))
                 /\ rpc' = "backoff"
                 /\ UNCHANGED <<qResult, result>>
  /\ UNCHANGED <<vectorIndex, upserts, caller, rSession, maxContexts, retries, query,
                 attempt, embedded, chunkVars, fileVars, svcVars>>

\* the wait is over: attempt++
BackoffDone ==
  /\ rpc = "backoff"
  /\ attempt' = attempt + 1
  /\ rpc' = "loop"
  /\ UNCHANGED <<vectorIndex, upserts, inflight, caller, rSession, maxContexts, retries, query,
                 attemptLog, waits, embedded, qResult, result, chunkVars, fileVars, svcVars>>

\* the loop condition fails: the function ends without a return statement
FallOff ==
  /\ rpc = "loop"
  /\ ~LoopGuard(attempt, retries)
  /\ qResult' = Returned(Undefined)
  /\ result' = Outcome(qResult')
  /\ rpc' = result'.kind
  /\ UNCHANGED <<vectorIndex, upserts, inflight, caller, rSession, maxContexts, retries, query,
                 attempt, attemptLog, waits, embedded, chunkVars, fileVars, svcVars>>

\* a query that was left outstanding settles, unobserved
QuerySettles ==
  /\ \E a \in inflight : inflight' = inflight \ {a}
  /\ UNCHANGED <<vectorIndex, upserts, rpc, callerVars, chunkVars, fileVars, svcVars>>

\* one call of queryVectors and the queries it leaves behind
QueryNext ==
  \/ Upsert \/ QVCall \/ AttemptOk \/ AttemptFails \/ BackoffDone \/ FallOff
  \/ QuerySettles

RetrNext ==
  \/ Upsert \/ QVCall \/ GRCCall \/ EmbedFails \/ EmbedOk
  \/ AttemptOk \/ AttemptFails \/ BackoffDone \/ FallOff

\* ------------------------------------------------------------------------
\* generateEmbeddings
\* ------------------------------------------------------------------------
MaxTexts == 181

\* const BATCH_SIZE = 90
BATCH_SIZE == 90

\* the argument texts: n texts, told apart by their number
TextsOf(n) == [i \in 1..n |-> i]

\* texts.slice(i, i + BATCH_SIZE)
BatchOfOverlapping(texts, i) == slice(texts, Max(i - 1, 0), i + BATCH_SIZE)

BatchOf(texts, i) == slice(texts, i, i + BATCH_SIZE)

\* what the provider answers for one input: a dense item, which carries the
\* input's vector, or a sparse one, which has no values
DenseItem(t) == [input |-> t, values |-> <<t>>]

SparseItem(t) == [input |-> t]

\* response.data of a successful embed request: one item per input, in the
\* order of the inputs; the item at position sparseAt (if any) is sparse
EmbedData(batch, sparseAt) ==
  [k \in 1..Len(batch) |-> IF k = sparseAt THEN SparseItem(batch[k]) ELSE DenseItem(batch[k])]

\* the positions at which the model lets a response hold a sparse item
SparseChoices(batch) == {0, 1, Len(batch)}

\* 'values' in item ? item.values || [] : []
ValuesOf(item) == IF "values" \in DOMAIN item THEN item.values ELSE <<>>

\* response.data.map(...)
BatchEmbeddings(data) == [k \in 1..Len(data) |-> ValuesOf(data[k])]

\* generateEmbeddings' catch: log the error and rethrow it
EmbedCatchPartial(e, partial) == Returned(partial)

EmbedCatch(e, partial) == Threw(e)

\* a call generateEmbeddings(texts) is made
EmbedInit ==
  /\ \E n \in 0..MaxTexts : eTexts = TextsOf(n)
  /\ ei = 0 /\ allEmbeddings = <<>> /\ requests = <<>>
  /\ epc = "loop" /\ eResult = Pending

\* getPineconeClient() throws (no API key), before any batch is sent
EmbedNoClient ==
  /\ epc = "loop" /\ ei = 0 /\ requests = <<>>
  /\ eResult' = EmbedCatch("PINECONE_API_KEY is not set", allEmbeddings)
  /\ epc' = eResult'.kind
  /\ UNCHANGED <<eTexts, ei, allEmbeddings, requests, indexVars, lastUpsert, routeVars,
                 chunkVars, fileVars, retrVars>>

\* one iteration of the loop in which client.inference.embed answers: the
\* batch's embeddings are pushed; the 100 ms delay follows when texts remain
EmbedBatchOk ==
  /\ epc = "loop"
  /\ ei < Len(eTexts)
  /\ LET batch == BatchOf(eTexts, ei)
     IN \E sparseAt \in SparseChoices(batch) :
          LET data == EmbedData(batch, sparseAt)
          IN /\ requests' = Append(requests, [batch |-> batch, ok |-> TRUE, data |-> data])
             /\ allEmbeddings' = allEmbeddings \o BatchEmbeddings(data)
  /\ IF ei + BATCH_SIZE < Len(eTexts)
       THEN epc' = "delay" /\ ei' = ei
       ELSE epc' = "loop" /\ ei' = ei + BATCH_SIZE
  /\ UNCHANGED <<eTexts, eResult, indexVars, lastUpsert, routeVars,
                 chunkVars, fileVars, retrVars>>

\* the delay between two batches is over: i += BATCH_SIZE
EmbedDelayDone ==
  /\ epc = "delay"
  /\ ei' = ei + BATCH_SIZE
  /\ epc' = "loop"
  /\ UNCHANGED <<eTexts, allEmbeddings, requests, eResult, indexVars, lastUpsert,
                 routeVars, chunkVars, fileVars, retrVars>>

\* one iteration of the loop in which client.inference.embed throws
EmbedBatchFails ==
  /\ epc = "loop"
  /\ ei < Len(eTexts)
  /\ requests' = Append(requests, [batch |-> BatchOf(eTexts, ei), ok |-> FALSE])
  /\ eResult' = EmbedCatch("embed request failed", allEmbeddings)
  /\ epc' = eResult'.kind
  /\ UNCHANGED <<eTexts, ei, allEmbeddings, indexVars, lastUpsert, routeVars,
                 chunkVars, fileVars, retrVars>>

\* the loop condition fails: return allEmbeddings
EmbedReturn ==
  /\ epc = "loop"
  /\ ei >= Len(eTexts)
  /\ eResult' = Returned(allEmbeddings)
  /\ epc' = "returned"
  /\ UNCHANGED <<eTexts, ei, allEmbeddings, requests, indexVars, lastUpsert, routeVars,
                 chunkVars, fileVars, retrVars>>

EmbedNext ==
  \/ EmbedNoClient \/ EmbedBatchOk \/ EmbedDelayDone \/ EmbedBatchFails \/ EmbedReturn

\* ------------------------------------------------------------------------
\* Idle values of the services' state
\* ------------------------------------------------------------------------
Callers == {"p1", "p2"}

EmbedIdle ==
  /\ eTexts = <<>> /\ ei = 0 /\ allEmbeddings = <<>> /\ requests = <<>>
  /\ epc = "idle" /\ eResult = Pending

IndexIdle ==
  /\ indexes = <<>>
  /\ gpc = [p \in Callers |-> "idle"]
  /\ gName = [p \in Callers |-> ""]
  /\ existing = [p \in Callers |-> FALSE]
  /\ creates = <<>> /\ gLog = <<>>
  /\ gCalls = [p \in Callers |-> 0]

NoUpsert == [sent |-> FALSE]

RouteIdle ==
  /\ route = "none" /\ request = <<>> /\ scriptContext = <<>> /\ response = Pending

SvcIdle == EmbedIdle /\ IndexIdle /\ lastUpsert = NoUpsert /\ RouteIdle

\* ------------------------------------------------------------------------
\* getOrCreateIndex
\* ------------------------------------------------------------------------
MaxCalls == 3

IndexNames == {"realvtuber", "scratch"}

\* what the service may already hold under a name before the first call: no
\* index, a ready one, or one that is still initializing
NoIndex == [exists |-> FALSE]

IndexOf(ready) == [exists |-> TRUE, dimension |-> Dimension, ready |-> ready]

IndexStates == {NoIndex, IndexOf(TRUE), IndexOf(FALSE)}

\* client.listIndexes(): the names the service holds (indexList.indexes)
ListIndexes(svc) == {n \in DOMAIN svc : svc[n].exists}

\* indexList.indexes?.find(index => index.name === indexName)
ExistingIndexNever(listing, indexName) == FALSE

ExistingIndex(listing, indexName) == indexName \in listing

\* the calls made so far, and the calls under way
CallsStarted == gCalls["p1"] + gCalls["p2"]

InCall(p) == gpc[p] \in {"list", "create", "waiting"}

\* the entry a call leaves in the log when it ends
Ended(p, kind) ==
  [caller |-> p, call |-> gCalls[p], name |-> gName[p], kind |-> kind,
   existing |-> existing[p],
   ready |-> indexes[gName[p]].exists /\ indexes[gName[p]].ready]

\* the service's indexes before any call
IndexInit ==
  /\ indexes \in [IndexNames -> IndexStates]
  /\ gpc = [p \in Callers |-> "idle"]
  /\ gName = [p \in Callers |-> ""]
  /\ existing = [p \in Callers |-> FALSE]
  /\ creates = <<>> /\ gLog = <<>>
  /\ gCalls = [p \in Callers |-> 0]

\* a caller calls getOrCreateIndex(indexName) while no other call is under way
GOCCall ==
  /\ CallsStarted < MaxCalls
  /\ \A q \in Callers : ~InCall(q)
  /\ \E p \in Callers, n \in IndexNames :
       /\ gpc' = [gpc EXCEPT ![p] = "list"]
       /\ gName' = [gName EXCEPT ![p] = n]
       /\ existing' = [existing EXCEPT ![p] = FALSE]
       /\ gCalls' = [gCalls EXCEPT ![p] = CallsStarted + 1]
  /\ UNCHANGED <<indexes, creates, gLog, embedVars, lastUpsert, routeVars,
                 chunkVars, fileVars, retrVars>>

\* listIndexes answers and the name is found: return client.index(indexName)
GOCFound ==
  /\ \E p \in Callers :
       /\ gpc[p] = "list"
       /\ ExistingIndex(ListIndexes(indexes), gName[p])
       /\ existing' = [existing EXCEPT ![p] = TRUE]
       /\ gpc' = [gpc EXCEPT ![p] = "done"]
       /\ gLog' = Append(gLog, [Ended(p, "returned") EXCEPT !.existing = TRUE])
  /\ UNCHANGED <<indexes, gName, creates, gCalls, embedVars, lastUpsert, routeVars,
                 chunkVars, fileVars, retrVars>>

\* listIndexes answers and the name is not found: createIndex is next
GOCAbsent ==
  /\ \E p \in Callers :
       /\ gpc[p] = "list"
       /\ ~ExistingIndex(ListIndexes(indexes), gName[p])
       /\ existing' = [existing EXCEPT ![p] = FALSE]
       /\ gpc' = [gpc EXCEPT ![p] = "create"]
  /\ UNCHANGED <<indexes, gName, creates, gLog, gCalls, embedVars, lastUpsert,
                 routeVars, chunkVars, fileVars, retrVars>>

\* getPineconeClient or listIndexes throws: the catch logs and rethrows
GOCListFails ==
  /\ \E p \in Callers :
       /\ gpc[p] = "list"
       /\ gpc' = [gpc EXCEPT ![p] = "threw"]
       /\ gLog' = Append(gLog, Ended(p, "threw"))
  /\ UNCHANGED <<indexes, gName, existing, creates, gCalls, embedVars, lastUpsert,
                 routeVars, chunkVars, fileVars, retrVars>>

\* the createIndex request reaches the service, which starts the index, or
\* rejects the request: always when it already holds an index of that name,
\* and possibly for a reason of its own (then the catch logs and rethrows)
GOCCreate ==
  /\ \E p \in Callers :
       /\ gpc[p] = "create"
       /\ \E accepted \in {b \in BOOLEAN : b => ~indexes[gName[p]].exists} :
            /\ creates' = Append(creates,
                 [caller |-> p, call |-> gCalls[p], name |-> gName[p],
                  dimension |-> Dimension,
                  absent |-> ~indexes[gName[p]].exists, accepted |-> accepted])
            /\ IF accepted
                 THEN /\ gpc' = [gpc EXCEPT ![p] = "waiting"]
                      /\ gLog' = gLog
                      /\ indexes' = [indexes EXCEPT ![gName[p]] = IndexOf(FALSE)]
                 ELSE /\ gpc' = [gpc EXCEPT ![p] = "threw"]
                      /\ gLog' = Append(gLog, Ended(p, "threw"))
                      /\ indexes' = indexes
  /\ UNCHANGED <<gName, existing, gCalls, embedVars, lastUpsert, routeVars,
                 chunkVars, fileVars, retrVars>>

\* waitUntilReady: the index reports ready, createIndex resolves, and
\* client.index(indexName) is returned
GOCReady ==
  /\ \E p \in Callers :
       /\ gpc[p] = "waiting"
       /\ indexes' = [indexes EXCEPT ![gName[p]] = IndexOf(TRUE)]
       /\ gpc' = [gpc EXCEPT ![p] = "done"]
       /\ gLog' = Append(gLog, [Ended(p, "returned") EXCEPT !.ready = TRUE])
  /\ UNCHANGED <<gName, existing, creates, gCalls, embedVars, lastUpsert, routeVars,
                 chunkVars, fileVars, retrVars>>

\* createIndex rejects while waiting (the index does not get ready in time):
\* the catch logs and rethrows; the index stays as it is
GOCWaitFails ==
  /\ \E p \in Callers :
       /\ gpc[p] = "waiting"
       /\ gpc' = [gpc EXCEPT ![p] = "threw"]
       /\ gLog' = Append(gLog, Ended(p, "threw"))
  /\ UNCHANGED <<indexes, gName, existing, creates, gCalls, embedVars, lastUpsert,
                 routeVars, chunkVars, fileVars, retrVars>>

IndexNext ==
  \/ GOCCall \/ GOCFound \/ GOCAbsent \/ GOCListFails
  \/ GOCCreate \/ GOCReady \/ GOCWaitFails

\* a caller calls getOrCreateIndex(indexName) while the other caller's call
\* is under way (two requests served at once: the function takes no lock)
GOCCallConcurrent ==
  /\ CallsStarted < MaxCalls
  /\ \E p \in Callers, n \in IndexNames :
       /\ ~InCall(p)
       /\ \E q \in Callers \ {p} : InCall(q)
       /\ gpc' = [gpc EXCEPT ![p] = "list"]
       /\ gName' = [gName EXCEPT ![p] = n]
       /\ existing' = [existing EXCEPT ![p] = FALSE]
       /\ gCalls' = [gCalls EXCEPT ![p] = CallsStarted + 1]
  /\ UNCHANGED <<indexes, creates, gLog, embedVars, lastUpsert, routeVars,
                 chunkVars, fileVars, retrVars>>

ConcurrentIndexNext ==
  \/ GOCCall \/ GOCCallConcurrent \/ GOCFound \/ GOCAbsent \/ GOCListFails
  \/ GOCCreate \/ GOCReady \/ GOCWaitFails

\* ------------------------------------------------------------------------
\* getProcessedDocument and listProcessedDocuments
\* ------------------------------------------------------------------------
\* the name of a file's manifest in the processed folder: `${fileName}.json`
ManifestName(f) == f \o ".json"

\* f.endsWith('.json') && !f.startsWith('chunks'), for the manifest names of
\* the model's file names
Listed(manifest) ==
  /\ manifest \in {ManifestName(f) : f \in FileNames \cup {"d.pdf", "chunks.txt"}}
  /\ manifest # ManifestName("chunks.txt")

Null == [null |-> TRUE]

\* getProcessedDocument: the manifest read back (JSON), or null
getProcessedDocument(m, f) == IF f \in DOMAIN m THEN m[f] ELSE Null

\* listProcessedDocuments: the manifests of the listed .json files
listProcessedDocuments(m) == {m[f] : f \in {g \in DOMAIN m : Listed(ManifestName(g))}}

\* a session folder with two text files
ManifestNames == {"a.txt", "chunks.txt"}

ManifestInit ==
  /\ uploads \in [ManifestNames -> {TextFile(BlankText), TextFile(ShortText), TextFile(LongText)}]
  /\ processed = <<>> /\ chunkFiles = <<>>
  /\ sessionId \in SessionIds
  /\ BatchIdle
  /\ single = NoCall

\* after a processFile call, getProcessedDocument and listProcessedDocuments
\* are called for the file
Retrieved(f, got, listed) == [kind |-> "retrieved", fileName |-> f, got |-> got, listed |-> listed]

Retrieve ==
  /\ single # NoCall /\ response = Pending
  /\ response' = Retrieved(single.result.fileName,
                           getProcessedDocument(processed, single.result.fileName),
                           listProcessedDocuments(processed))
  /\ UNCHANGED <<route, request, scriptContext, fileVars, embedVars, indexVars,
                 lastUpsert, chunkVars, retrVars>>

ManifestNext == ProcessSingle \/ Retrieve

\* ------------------------------------------------------------------------
\* POST /api/process-simple
\* ------------------------------------------------------------------------

\* NextResponse.json(body, { status })
Response(status, body) == [kind |-> "sent", status |-> status, body |-> body]

RECURSIVE SumChunks(_)
\* processedDocs.reduce((sum, doc) => sum + doc.totalChunks, 0)
SumChunks(docs) ==
  IF docs = <<>> THEN 0 ELSE Head(docs).totalChunks + SumChunks(Tail(docs))

\* the route's success response for processedDocs
ProcessedBody(docs) ==
  IF Len(docs) = 0
    THEN [success |-> TRUE, message |-> "No files to process",
          processedFiles |-> 0, processedChunks |-> 0]
    ELSE [success |-> TRUE,
          message |-> "Files processed successfully (without embedding)",
          processedFiles |-> Len(docs),
          processedChunks |-> SumChunks(docs),
          documents |-> [i \in 1..Len(docs) |->
                           [fileName |-> docs[i].fileName, fileType |-> docs[i].fileType,
                            totalChunks |-> docs[i].totalChunks]]]

\* the route's catch
ProcessErrorBody(details) ==
  [success |-> FALSE, error |-> "Failed to process files", details |-> details]

\* the bodies a request may carry: sessionId (or none), action, fileName (or
\* none)
ProcessRequests(sid) ==
  {[sessionId |-> s, action |-> a, fileName |-> f] :
     s \in {"", sid}, a \in {"process_all", "process_single"}, f \in {"", "a.txt"}}

\* a request reaches the route, for a session folder with some uploads
ProcessRouteInit ==
  /\ uploads \in [FileNames -> {Absent, TextFile(BlankText), TextFile(LongText)}]
  /\ processed = <<>> /\ chunkFiles = <<>>
  /\ sessionId \in SessionIds
  /\ ppc = "request" /\ files = <<>> /\ fileIdx = 1
  /\ processedDocs = <<>> /\ outcomes = <<>>
  /\ single = NoCall
  /\ route = "process-simple"
  /\ request \in ProcessRequests(sessionId)
  /\ scriptContext = <<>> /\ response = Pending

\* if (!sessionId) return 400
PRBadRequest ==
  /\ route = "process-simple" /\ ppc = "request" /\ response = Pending
  /\ request.sessionId = ""
  /\ response' = Response(400, [error |-> "Session ID is required"])
  /\ UNCHANGED <<route, request, scriptContext, fileVars, embedVars, indexVars,
                 lastUpsert, chunkVars, retrVars>>

\* action === 'process_single' && fileName: processFile is called, and its
\* document or its error is answered
PRSingle ==
  /\ route = "process-simple" /\ ppc = "request" /\ response = Pending
  /\ request.sessionId # ""
  /\ request.action = "process_single" /\ request.fileName # ""
  /\ \E fault \in Faults(uploads[request.fileName]) :
       LET r == processFile(request.sessionId, request.fileName,
                            uploads[request.fileName], fault)
       IN /\ processed' = WriteManifest(processed, r)
          /\ chunkFiles' = WriteChunks(chunkFiles, r)
          /\ single' = [called |-> TRUE, result |-> r]
          /\ response' = IF r.ok THEN Response(200, ProcessedBody(<<r.doc>>))
                         ELSE Response(500, ProcessErrorBody(r.error))
  /\ ppc' = "single"
  /\ UNCHANGED <<uploads, sessionId, files, fileIdx, processedDocs, outcomes,
                 route, request, scriptContext, embedVars, indexVars, lastUpsert,
                 chunkVars, retrVars>>

\* otherwise: processSessionFiles(sessionId, uploadsPath, processedPath) is
\* called
PRAll ==
  /\ route = "process-simple" /\ ppc = "request" /\ response = Pending
  /\ request.sessionId # ""
  /\ ~(request.action = "process_single" /\ request.fileName # "")
  /\ ppc' = "idle"
  /\ UNCHANGED <<uploads, processed, chunkFiles, sessionId, files, fileIdx,
                 processedDocs, outcomes, single, routeVars, embedVars, indexVars,
                 lastUpsert, chunkVars, retrVars>>

\* processSessionFiles returned processedDocs: the success response
PRRespond ==
  /\ route = "process-simple" /\ ppc = "done" /\ response = Pending
  /\ response' = Response(200, ProcessedBody(processedDocs))
  /\ UNCHANGED <<route, request, scriptContext, fileVars, embedVars, indexVars,
                 lastUpsert, chunkVars, retrVars>>

\* processSessionFiles threw: the route's catch answers 500
PRRespondError ==
  /\ route = "process-simple" /\ ppc = "threw" /\ response = Pending
  /\ response' = Response(500, ProcessErrorBody("ENOENT: no such file or directory"))
  /\ UNCHANGED <<route, request, scriptContext, fileVars, embedVars, indexVars,
                 lastUpsert, chunkVars, retrVars>>

ProcessRouteNext ==
  \/ PRBadRequest \/ PRSingle \/ PRAll
  \/ PSFList \/ PSFListFails \/ PSFFile \/ PSFReturn
  \/ PRRespond \/ PRRespondError

\* ------------------------------------------------------------------------
\* POST /api/generate-script and POST /api/generate-script/demo
\* ------------------------------------------------------------------------

\* getRelevantContext(topic, sessionId, 8) and getRelevantContext(topic,
\* sessionId, 5)
ScriptContexts == 8

DemoContexts == 5

\* the body's defaults: duration = 5, tone = 'professional', audience =
\* 'general'
DefaultDuration == 5

ScriptRoutes == {"generate-script", "demo"}

Topics == {"", "x402"}

ScriptRequests ==
  {[sessionId |-> sid, topic |-> t, duration |-> DefaultDuration,
    tone |-> "professional", audience |-> "general"] :
     sid \in SessionArgs, t \in Topics}

\* the fallback context of generate-script's catch around getRelevantContext
CatchFallback(req) ==
  <<"Topic: " \o req.topic,
    "Please provide a comprehensive " \o req.tone \o " overview suitable for "
      \o req.audience \o ".",
    "Duration: " \o ToString(req.duration) \o " minutes",
    "Focus on key concepts, practical applications, and relevant examples.">>

\* the fallback context for an empty knowledgeContext
MinimalFallback(req) ==
  <<"Please provide a " \o req.tone \o " presentation about " \o req.topic
      \o " for " \o req.audience \o " lasting " \o ToString(req.duration)
      \o " minutes.">>

\* generate-script: the knowledgeContext handed to generateScript, from how
\* getRelevantContext ended
KnowledgeContext(req, res) ==
  LET got == IF res.kind = "threw" THEN CatchFallback(req) ELSE res.value
  IN IF Len(got) = 0 THEN MinimalFallback(req) ELSE got

\* a request reaches one of the two routes
ScriptRouteInit ==
  /\ route \in ScriptRoutes
  /\ request \in ScriptRequests
  /\ scriptContext = <<>> /\ response = Pending

\* if (!sessionId || !topic) return 400
SGBadRequest ==
  /\ route \in ScriptRoutes /\ rpc = "idle" /\ response = Pending
  /\ request.sessionId = "" \/ request.topic = ""
  /\ response' = Response(400,
       [success |-> FALSE,
        error |-> "Missing required fields: sessionId and topic are required"])
  /\ UNCHANGED <<route, request, scriptContext, retrVars, embedVars, indexVars,
                 lastUpsert, chunkVars, fileVars>>

\* Step 1: getRelevantContext(topic, sessionId, 8 or 5) is called
SGRetrieve ==
  /\ route \in ScriptRoutes /\ rpc = "idle" /\ response = Pending
  /\ request.sessionId # "" /\ request.topic # ""
  /\ caller' = "context"
  /\ rSession' = request.sessionId
  /\ maxContexts' = IF route = "demo" THEN DemoContexts ELSE ScriptContexts
  /\ rpc' = "embed"
  /\ UNCHANGED <<vectorIndex, upserts, inflight, retries, query, attempt, attemptLog, waits,
                 embedded, qResult, result, svcVars, chunkVars, fileVars>>

\* generate-script, once getRelevantContext has ended: the fallbacks, then
\* generateScript with knowledgeContext; its script is answered with 201
\* (stored or not), its failure with 500
SGGenerate ==
  /\ route = "generate-script" /\ response = Pending
  /\ rpc \in {"returned", "threw"}
  /\ scriptContext' = KnowledgeContext(request, result)
  /\ \E generated \in BOOLEAN, stored \in BOOLEAN :
       response' =
         IF generated
           THEN Response(201, [success |-> TRUE, topic |-> request.topic,
                               contextChunksUsed |-> Len(scriptContext'),
                               stored |-> stored])
           ELSE Response(500, [success |-> FALSE, error |-> "Script generation failed"])
  /\ UNCHANGED <<route, request, retrVars, embedVars, indexVars, lastUpsert,
                 chunkVars, fileVars>>

\* the demo route, once getRelevantContext has ended: 404 for an empty
\* knowledgeContext, else the demo script from it, answered with 201; the
\* outer catch answers 500
SGDemo ==
  /\ route = "demo" /\ response = Pending
  /\ rpc \in {"returned", "threw"}
  /\ IF result.kind = "threw"
       THEN /\ response' = Response(500, [success |-> FALSE,
                                          error |-> "DEMO script generation failed"])
            /\ scriptContext' = scriptContext
       ELSE IF Len(result.value) = 0
         THEN /\ response' = Response(404,
                   [success |-> FALSE,
                    error |-> "No relevant knowledge found for the given topic. Please ensure documents are uploaded and processed for this session."])
              /\ scriptContext' = scriptContext
         ELSE /\ response' = Response(201, [success |-> TRUE, topic |-> request.topic,
                                            contextChunksUsed |-> Len(result.value),
                                            stored |-> FALSE])
              /\ scriptContext' = result.value
  /\ UNCHANGED <<route, request, retrVars, embedVars, indexVars, lastUpsert,
                 chunkVars, fileVars>>

ScriptNext ==
  \/ Upsert \/ SGBadRequest \/ SGRetrieve
  \/ EmbedFails \/ EmbedOk \/ AttemptOk \/ AttemptFails \/ BackoffDone
  \/ SGGenerate \/ SGDemo

\* ------------------------------------------------------------------------
\* POST /api/ingest
\* ------------------------------------------------------------------------

\* the uploads of the route and the text pdfParse extracts from each, already
\* cut into the splitter's chunks (none for a file without text)
IngestFiles == {"d.pdf", "e.pdf", "scan.pdf"}

SplitChunks(file) ==
  CASE file = "d.pdf" -> <<"alpha">>
    [] file = "e.pdf" -> <<"gamma", "a chunk of more than 400 characters ...">>
    [] OTHER -> <<>>

\* texts[i].slice(0, 400)
Preview(t) ==
  IF t = "a chunk of more than 400 characters ..." THEN "a chunk of more than" ELSE t

\* base.replace(/\W/g, "_")
Underscored(file) ==
  CASE file = "d.pdf" -> "d_pdf"
    [] file = "e.pdf" -> "e_pdf"
    [] OTHER -> "scan_pdf"

\* makeId(base, i)
makeId(base, i) == Underscored(base) \o "_chunk_" \o ToString(i)

\* formData.get("sessionId") || "default"
IngestSessions == SessionIds \cup {"default"}

\* what embedDocuments returns for a chunk: a vector of the embedder's
\* length, which is or is not the dimension of the index the route writes to
IngestEmbeddings == {<<1, 0>>, <<1>>}

\* the vector the route builds for chunk i (0-based) of the file
IngestVector(file, sid, values, i) ==
  [id |-> makeId(file, i),
   values |-> values,
   metadata |-> [source |-> file,
                 sessionId |-> sid,
                 text |-> Preview(SplitChunks(file)[i + 1]),
                 page |-> i]]

IngestVectors(file, sid, values) ==
  {IngestVector(file, sid, values, i) : i \in 0..(Len(SplitChunks(file)) - 1)}

\* index.upsert({ upsertRequest: { namespace: sessionId, vectors } })
IngestUpsert(idx, vs, sid) ==
  IF \A v \in vs : Accepts(v)
    THEN {r \in idx : ~(r.ns = sid /\ \E v \in vs : v.id = r.id)}
           \cup {Stored(sid, v) : v \in vs}
    ELSE idx

\* POST /api/ingest with a file and a sessionId: 400 when no text was
\* extracted, 500 when the upsert throws, the number of chunks otherwise
Ingest ==
  /\ rpc = "idle"
  /\ upserts < MaxUpserts
  /\ \E file \in IngestFiles, sid \in IngestSessions, values \in IngestEmbeddings :
       LET vs == IngestVectors(file, sid, values)
       IN IF SplitChunks(file) = <<>>
            THEN /\ response' = Response(400, [error |-> "no text extracted"])
                 /\ UNCHANGED <<vectorIndex, lastUpsert>>
            ELSE /\ vectorIndex' = IngestUpsert(vectorIndex, vs, sid)
                 /\ lastUpsert' = [sent |-> TRUE, namespace |-> sid,
                                   length |-> Len(values),
                                   accepted |-> \A v \in vs : Accepts(v)]
                 /\ response' = IF lastUpsert'.accepted
                                  THEN Response(200, [message |-> "ingested",
                                                      chunks |-> Cardinality(vs)])
                                  ELSE Response(500, [error |-> "upsert failed"])
  /\ upserts' = upserts + 1
  /\ UNCHANGED <<rpc, callVars, chunkVars, fileVars, embedVars, indexVars,
                 route, request, scriptContext>>

\* ingestions, then one call of getRelevantContext
IngestNext ==
  \/ Ingest \/ GRCCall \/ EmbedFails \/ EmbedOk
  \/ AttemptOk \/ AttemptFails \/ BackoffDone

\* ------------------------------------------------------------------------
\* Specifications
\* ------------------------------------------------------------------------

\* one call of chunkText, on any text and any chunkSize and overlap
InitChunk == ChunkInit /\ FilesIdle /\ RetrIdle /\ SvcIdle

SpecChunk == InitChunk /\ [][ChunkNext]_vars

\* one call of chunkText on a long text
InitChunkLong == LongChunkInit /\ FilesIdle /\ RetrIdle /\ SvcIdle

SpecChunkLong == InitChunkLong /\ [][ChunkNext]_vars

\* one call of processSessionFiles on a session folder
InitFiles == ChunkIdle /\ FilesInit /\ RetrIdle /\ SvcIdle

SpecFiles == InitFiles /\ [][FilesNext]_vars

\* one call of processFile on a file with any text
InitProcessFile == ChunkIdle /\ ProcessFileInit /\ RetrIdle /\ SvcIdle

SpecProcessFile == InitProcessFile /\ [][ProcessFileNext]_vars

\* upserts into the index, then one call of queryVectors or getRelevantContext
InitRetrieval == ChunkIdle /\ FilesIdle /\ RetrIdle /\ SvcIdle

SpecRetrieval == InitRetrieval /\ [][RetrNext]_vars

\* files ingested through /api/ingest, then retrieved
InitIngest == ChunkIdle /\ FilesIdle /\ RetrIdle /\ SvcIdle

SpecIngest == InitIngest /\ [][IngestNext]_vars

\* calls of queryVectors, with the queries a timeout leaves outstanding
InitQuery == ChunkIdle /\ FilesIdle /\ RetrIdle /\ SvcIdle

SpecQuery == InitQuery /\ [][QueryNext]_vars

\* one call of generateEmbeddings, on any number of texts
InitEmbed ==
  /\ ChunkIdle /\ FilesIdle /\ RetrIdle
  /\ EmbedInit /\ IndexIdle /\ lastUpsert = NoUpsert /\ RouteIdle

SpecEmbed == InitEmbed /\ [][EmbedNext]_vars

\* one call of processFile on a PDF
InitParse == ChunkIdle /\ ParseInit /\ RetrIdle /\ SvcIdle

SpecParse == InitParse /\ [][ProcessFileNext]_vars

\* one request to POST /api/process-simple
InitProcessRoute ==
  /\ ChunkIdle /\ RetrIdle
  /\ EmbedIdle /\ IndexIdle /\ lastUpsert = NoUpsert
  /\ ProcessRouteInit

SpecProcessRoute == InitProcessRoute /\ [][ProcessRouteNext]_vars

\* upserts into the index, and one request to a script-generation route
InitScript ==
  /\ ChunkIdle /\ FilesIdle /\ RetrIdle
  /\ EmbedIdle /\ IndexIdle /\ lastUpsert = NoUpsert
  /\ ScriptRouteInit

SpecScript == InitScript /\ [][ScriptNext]_vars

\* one call of processFile, then the manifest is read back and listed
InitManifest == ChunkIdle /\ ManifestInit /\ RetrIdle /\ SvcIdle

SpecManifest == InitManifest /\ [][ManifestNext]_vars

\* calls of getOrCreateIndex, one after another
InitIndex ==
  /\ ChunkIdle /\ FilesIdle /\ RetrIdle
  /\ EmbedIdle /\ IndexInit /\ lastUpsert = NoUpsert /\ RouteIdle

SpecIndex == InitIndex /\ [][IndexNext]_vars

\* calls of getOrCreateIndex that may overlap
InitIndexConcurrent ==
  /\ ChunkIdle /\ FilesIdle /\ RetrIdle
  /\ EmbedIdle /\ IndexInit /\ lastUpsert = NoUpsert /\ RouteIdle

SpecIndexConcurrent == InitIndexConcurrent /\ [][ConcurrentIndexNext]_vars

\* processFile called twice for the same file, which may be uploaded again
\* between the two calls
InitReprocess == ChunkIdle /\ ReprocessInit /\ RetrIdle /\ SvcIdle

SpecReprocess == InitReprocess /\ [][ReprocessNext]_vars

\* ------------------------------------------------------------------------
\* Properties of chunkText
\* ------------------------------------------------------------------------

\* the part of the text a window's chunk holds: the window without the
\* whitespace trim() removes at its two ends, as positions 1..Len(text)
Kept(w) ==
  LET s == slice(text, w.start, w.end)
  IN IF w.chunk = <<>> THEN {}
     ELSE (w.start + LeadingWs(s) + 1)..(w.end - TrailingWs(s))

\* the chunks pushed by the windows cut so far, in order
RECURSIVE Emitted(_)
Emitted(ws) ==
  IF ws = <<>> THEN <<>>
  ELSE PushChunk(Emitted(SubSeq(ws, 1, Len(ws) - 1)), ws[Len(ws)].chunk)

\* C7: chunkText terminates for every text, chunkSize and overlap (overlap >=
\* chunkSize and overlap < 0 included): every iteration moves start forward by
\* at least 1, so the loop runs at most len(text) times, and it ends with
\* start >= len(text).
ChunkTerminates ==
  /\ Len(windows) <= Len(text)
  /\ \A i \in 1..(Len(windows) - 1) : windows[i + 1].start >= windows[i].start + 1
  /\ (windows # <<>> => start >= windows[Len(windows)].start + 1)
  /\ (cpc = "done" /\ Len(text) > chunkSize => start >= Len(text))

\* a call with overlap >= chunkSize ran its loop len(text) times and returned
ChunkTerminatesWitness ==
  /\ cpc = "done"
  /\ chunkSize >= 1 /\ overlap >= chunkSize
  /\ Len(text) >= 3 /\ Len(windows) = Len(text)

\* C8: for a text longer than chunkSize, chunkSize >= 1 and 0 <= overlap <
\* chunkSize, the windows cover the text without a gap: the first starts at 0,
\* each next one starts at or before the end of the one before, the last ends
\* at len(text); every chunk is its window without the whitespace at its ends,
\* so every character that is in no chunk is whitespace.
ChunkCoverage ==
  (/\ cpc = "done"
   /\ Len(text) > chunkSize /\ chunkSize >= 1
   /\ 0 <= overlap /\ overlap < chunkSize)
  => /\ windows # <<>>
     /\ windows[1].start = 0
     /\ \A i \in 1..(Len(windows) - 1) : windows[i + 1].start <= windows[i].end
     /\ \A i \in 1..Len(windows) : windows[i].start < windows[i].end
     /\ windows[Len(windows)].end = Len(text)
     /\ chunks = Emitted(windows)
     /\ \A i \in 1..Len(windows) :
          windows[i].chunk # <<>> =>
            LET K == Kept(windows[i])
            IN /\ K # {}
               /\ windows[i].chunk = [k \in 1..Cardinality(K) |-> text[SetMax(K) - Cardinality(K) + k]]
     /\ \A k \in 1..Len(text) :
          (\A i \in 1..Len(windows) : k \notin Kept(windows[i])) => IsWhitespace(text[k])

\* a text cut into three windows or more, one of them skipped as blank, with
\* whitespace dropped from the text
ChunkCoverageWitness ==
  /\ cpc = "done"
  /\ Len(text) > chunkSize /\ chunkSize >= 2
  /\ 0 <= overlap /\ overlap < chunkSize
  /\ Len(windows) >= 3
  /\ \E i \in 1..Len(windows) : windows[i].chunk = <<>>
  /\ \E k \in 1..Len(text) : ~IsWhitespace(text[k])

\* C9: when len(text) <= chunkSize, chunkText returns [text], the text
\* unchanged (whatever the overlap), and cuts no window.
ChunkShortText ==
  (cpc = "done" /\ Len(text) <= chunkSize)
  => /\ chunks = <<text>>
     /\ windows = <<>>
     /\ chunkText(text, chunkSize, overlap) = <<text>>

\* a short text with whitespace at both ends was returned
ChunkShortTextWitness ==
  /\ cpc = "done"
  /\ Len(text) <= chunkSize /\ Len(text) >= 3
  /\ IsWhitespace(text[1]) /\ IsWhitespace(text[Len(text)])
  /\ ~IsWhitespace(text[2])
  /\ overlap >= 1

\* the stepwise call returns what chunkText, as a function, returns
ChunkStepsAgree ==
  cpc = "done" => chunks = chunkText(text, chunkSize, overlap)

\* ------------------------------------------------------------------------
\* Properties of processFile and processSessionFiles
\* ------------------------------------------------------------------------

\* the j-th smallest element of a set of numbers
Nth(S, j) == CHOOSE i \in S : Cardinality({g \in S : g <= i}) = j

\* C6: processSessionFiles calls processFile on every file of the listing, in
\* listing order, whatever the earlier files did; a file's failure does not
\* make it throw; the list it returns holds the documents of the files whose
\* processFile succeeded, and only those, in listing order.
BatchTolerance ==
  LET good == {i \in 1..Len(outcomes) : outcomes[i].ok}
  IN /\ ppc \in {"loop", "done"} =>
          /\ Len(outcomes) = fileIdx - 1
          /\ \A i \in 1..Len(outcomes) : outcomes[i].fileName = files[i]
     /\ ppc = "done" => Len(outcomes) = Len(files)
     /\ ppc = "threw" => outcomes = <<>>
     /\ Len(processedDocs) = Cardinality(good)
     /\ \A j \in 1..Len(processedDocs) : processedDocs[j] = outcomes[Nth(good, j)].doc

\* three files were listed, the second one was blank (EmptyContent), and the
\* call returned the documents of the other two
BatchToleranceWitness ==
  /\ ppc = "done"
  /\ Len(files) = 3
  /\ ~outcomes[2].ok /\ outcomes[2].error = "No text content found in file"
  /\ outcomes[1].ok /\ outcomes[3].ok
  /\ Len(processedDocs) = 2
  /\ processedDocs[2].fileName = files[3]

\* the documents processFile has produced: returned, or written as manifests
Documents ==
  {single.result.doc : x \in {y \in {1} : single.called /\ single.result.ok}}
    \cup {processed[f] : f \in DOMAIN processed}
    \cup {processedDocs[i] : i \in 1..Len(processedDocs)}

\* C10: in every ProcessedDocument, totalChunks is the number of chunks and is
\* at least 1, and the chunk at position i (from 0) has chunkIndex i and
\* metadata.totalChunks = totalChunks.
ChunkIndexContiguous ==
  \A d \in Documents :
    /\ d.totalChunks = Len(d.chunks)
    /\ d.totalChunks >= 1
    /\ \A i \in 1..Len(d.chunks) :
         /\ d.chunks[i].metadata.chunkIndex = i - 1
         /\ d.chunks[i].metadata.totalChunks = d.totalChunks

\* a document of two chunks or more, of a text whose last window was
\* skipped as blank
ChunkIndexContiguousWitness ==
  /\ single.called /\ single.result.ok
  /\ single.result.doc.totalChunks >= 2
  /\ LET t == uploads["a.txt"].text
     IN Len(t) = MaxLen /\ IsWhitespace(t[Len(t)])

\* ------------------------------------------------------------------------
\* Properties of the retrieval calls
\* ------------------------------------------------------------------------

Terminal == rpc \in {"returned", "threw"}

\* C1: getRelevantContext never throws; when the embedding step fails or
\* gives no usable query vector, or the query fails on its last attempt, it
\* returns the empty list.
RetrievalFailOpen ==
  caller = "context" =>
    /\ rpc # "threw" /\ result.kind # "threw"
    /\ (Terminal <=> result.kind = "returned")
    /\ embedded \in {"threw", "noEmbeddings", "emptyVector"} => result = Returned(<<>>)
    /\ qResult.kind = "threw" => result = Returned(<<>>)
    /\ (Len(attemptLog) = retries /\ embedded = "ok"
          /\ attemptLog[Len(attemptLog)].kind \in {"error", "timeout"})
         => result = Returned(<<>>)

\* all three attempts of the query failed, the last by the timeout, on an
\* index that holds a record of the session: the empty list was returned
RetrievalFailOpenWitness ==
  /\ caller = "context" /\ rpc = "returned"
  /\ Len(attemptLog) = DefaultRetries
  /\ attemptLog[DefaultRetries].kind = "timeout"
  /\ qResult.kind = "threw"
  /\ Eligible(vectorIndex, query.namespace, query.filter) # {}
  /\ result = Returned(<<>>)

\* the score of a match of a response; a match without a score counts as 0
ScoreOf(m) == IF "score" \in DOMAIN m THEN m.score ELSE 0

\* the label and text of a match of a response
LabelOf(m) ==
  LET md == IF "metadata" \in DOMAIN m THEN m.metadata ELSE <<>>
      name == IF "fileName" \in DOMAIN md THEN md.fileName ELSE "Unknown source"
      body == IF "content" \in DOMAIN md THEN md.content ELSE ""
  IN "[Source: " \o name \o "]\n" \o body

\* C2: the query is issued with topK = 2 * maxContexts, and of the matches it
\* returns getRelevantContext returns those with score > 0.7 (no score: 0), in
\* the order returned, cut to the first maxContexts, each as
\* "[Source: <fileName>]\n<content>".
RetrievalScoreGate ==
  (caller = "context" /\ qResult.kind = "returned") =>
    LET ms == qResult.value.matches
        good == {i \in 1..Len(ms) : ScoreOf(ms[i]) > ScoreThreshold}
    IN /\ query.topK = 2 * maxContexts
       /\ result.kind = "returned"
       /\ Len(result.value) = Min(Cardinality(good), maxContexts)
       /\ Len(result.value) <= maxContexts
       /\ \A j \in 1..Len(result.value) : result.value[j] = LabelOf(ms[Nth(good, j)])

\* two matches came back, the first with score 0.7 and the second above it:
\* only the second was returned, with its label
RetrievalScoreGateWitness ==
  /\ caller = "context" /\ qResult.kind = "returned"
  /\ Len(qResult.value.matches) = 2
  /\ ScoreOf(qResult.value.matches[1]) = ScoreThreshold
  /\ ScoreOf(qResult.value.matches[2]) > ScoreThreshold
  /\ result.value = <<"[Source: a.txt]\nalpha">>

\* the record of the index a match was read from, in namespace ns
StoredAs(m, ns) ==
  {r \in vectorIndex :
     /\ r.ns = ns /\ r.id = m.id
     /\ ("metadata" \in DOMAIN r) = ("metadata" \in DOMAIN m)
     /\ "metadata" \in DOMAIN r => r.metadata = m.metadata}

\* C3: whatever was upserted, every match that queryVectors returns for a
\* namespace, and every context getRelevantContext returns for a session, is
\* one of a record upserted under that very namespace; searchKnowledgeBase
\* queries namespace = sessionId with the filter sessionId = that session.
NamespaceIsolation ==
  /\ \A r \in vectorIndex : r.ns \in SessionArgs
  /\ (qResult.kind = "returned" /\ qResult.value # Undefined) =>
       \A i \in 1..Len(qResult.value.matches) :
          StoredAs(qResult.value.matches[i], rSession) # {}
  /\ (caller = "context" /\ embedded = "ok" /\ rSession # "") =>
       /\ query.namespace = rSession
       /\ query.filter = SessionFilter(rSession)
  /\ (caller = "context" /\ result.kind = "returned") =>
       \A j \in 1..Len(result.value) :
          \E r \in vectorIndex :
             /\ r.ns = rSession
             /\ rSession # "" => Field(Field(r, "metadata", <<>>), "sessionId", "") = rSession
             /\ result.value[j] = LabelOf(r)

\* the index holds the same vector under sessA and under sessB; a query for
\* sessB returned a match, read from the record under sessB
NamespaceIsolationWitness ==
  /\ caller = "context" /\ rSession = "sessB"
  /\ \E r1, r2 \in vectorIndex : r1.ns = "sessA" /\ r2.ns = "sessB" /\ r1.id = r2.id
  /\ qResult.kind = "returned"
  /\ Len(qResult.value.matches) = 1
  /\ Len(result.value) = 1

\* C4: queryVectors makes at most `retries` attempts; an attempt starts only
\* after the one before it failed; the response of the first attempt that
\* succeeds is returned, and no attempt follows it.
QueryAttemptsBounded ==
  /\ Len(attemptLog) <= retries
  /\ \A i \in 1..Len(attemptLog) : attemptLog[i].attempt = i
  /\ \A i \in 1..(Len(attemptLog) - 1) : attemptLog[i].kind \in {"error", "timeout"}
  /\ rpc \in {"loop", "backoff"} => attempt = Len(attemptLog) + (IF rpc = "loop" THEN 1 ELSE 0)
  /\ \A i \in 1..Len(attemptLog) :
       attemptLog[i].kind = "ok" =>
         /\ i = Len(attemptLog)
         /\ Terminal
         /\ qResult = Returned(attemptLog[i].response)

\* the third of three attempts succeeded, after a timeout and an error
QueryAttemptsBoundedWitness ==
  /\ caller = "query" /\ retries = 3
  /\ Len(attemptLog) = 3
  /\ attemptLog[1].kind = "timeout" /\ attemptLog[2].kind = "error"
  /\ attemptLog[3].kind = "ok"
  /\ Len(attemptLog[3].response.matches) >= 1

\* C5: for every value of retries, queryVectors returns only the response of
\* an attempt that succeeded, and throws the last attempt's error when every
\* attempt failed; it never returns undefined.
QueryReturnsOnlyResponses ==
  /\ qResult.kind = "returned" =>
       /\ qResult.value # Undefined
       /\ Len(attemptLog) >= 1
       /\ attemptLog[Len(attemptLog)].kind = "ok"
       /\ qResult.value = attemptLog[Len(attemptLog)].response
  /\ qResult.kind = "threw" =>
       /\ Len(attemptLog) >= 1
       /\ qResult.error.attempt = Len(attemptLog)
       /\ qResult.error.kind = attemptLog[Len(attemptLog)].kind

\* ------------------------------------------------------------------------
\* Properties of re-processing
\* ------------------------------------------------------------------------

\* the ids of a document's chunks, in order
IdsOf(doc) == [i \in 1..Len(doc.chunks) |-> doc.chunks[i].id]

ContentsOf(doc) == [i \in 1..Len(doc.chunks) |-> doc.chunks[i].content]

\* both calls of processFile returned a document
BothProcessed == single # NoCall /\ single.result.ok /\ outcomes # <<>> /\ outcomes[1].ok

\* C11: chunk ids depend on (sessionId, fileName, chunkIndex) only. When the
\* same file of the same session was processed twice, chunks with the same
\* chunkIndex have the same id whatever the content was; when the content
\* cut into the same chunks both times, the two sequences of ids are equal,
\* in the same order; and within one document no two chunks share an id.
ChunkIdsDeterministic ==
  BothProcessed =>
    LET d1 == single.result.doc
        d2 == outcomes[1].doc
    IN /\ \A i \in 1..Len(d1.chunks), j \in 1..Len(d2.chunks) :
            d1.chunks[i].metadata.chunkIndex = d2.chunks[j].metadata.chunkIndex
              => d1.chunks[i].id = d2.chunks[j].id
       /\ ContentsOf(d1) = ContentsOf(d2) => IdsOf(d1) = IdsOf(d2)
       /\ \A d \in {d1, d2} : \A i, j \in 1..Len(d.chunks) :
            d.chunks[i].id = d.chunks[j].id => i = j

\* a file cut into several chunks was processed twice with the same content
ChunkIdsDeterministicWitness ==
  /\ BothProcessed
  /\ Len(single.result.doc.chunks) >= 2
  /\ ContentsOf(single.result.doc) = ContentsOf(outcomes[1].doc)
  /\ IdsOf(single.result.doc) = IdsOf(outcomes[1].doc)

\* ------------------------------------------------------------------------
\* Properties of generateEmbeddings
\* ------------------------------------------------------------------------
RECURSIVE Flatten(_)
Flatten(seqs) == IF seqs = <<>> THEN <<>> ELSE Head(seqs) \o Flatten(Tail(seqs))

\* the batches sent so far, and the items the provider answered with
BatchesSent == [k \in 1..Len(requests) |-> requests[k].batch]

ItemsReceived ==
  Flatten([k \in 1..Len(requests) |-> IF requests[k].ok THEN requests[k].data ELSE <<>>])

\* C12: when generateEmbeddings returns, the batches it sent are consecutive
\* slices of texts, in input order, of at most 90 texts each (all but the last
\* of exactly 90), and the returned list has one vector per text, the vector
\* at position i being the one the provider answered for texts[i].
EmbeddingsAligned ==
  epc = "returned" =>
    /\ \A k \in 1..Len(requests) :
         /\ requests[k].ok
         /\ Len(requests[k].batch) <= BATCH_SIZE
         /\ Len(requests[k].batch) >= 1
         /\ k < Len(requests) => Len(requests[k].batch) = BATCH_SIZE
    /\ Flatten(BatchesSent) = eTexts
    /\ eResult.kind = "returned"
    /\ Len(eResult.value) = Len(eTexts)
    /\ Len(ItemsReceived) = Len(eTexts)
    /\ \A i \in 1..Len(eTexts) :
         /\ ItemsReceived[i].input = eTexts[i]
         /\ eResult.value[i] = ValuesOf(ItemsReceived[i])

\* 91 texts were embedded in two batches, 90 and 1
EmbeddingsAlignedWitness ==
  /\ epc = "returned"
  /\ Len(eTexts) = BATCH_SIZE + 1
  /\ Len(requests) = 2
  /\ Len(requests[2].batch) = 1
  /\ eResult.value[BATCH_SIZE + 1] = <<eTexts[BATCH_SIZE + 1]>>

\* C13: once a batch's request has failed, generateEmbeddings has thrown:
\* the failed request is the last one the provider receives, and the call
\* returns no value, so none of the vectors of the earlier batches.
EmbedFailureAborts ==
  (\E k \in 1..Len(requests) : ~requests[k].ok) =>
    /\ ~requests[Len(requests)].ok
    /\ \A k \in 1..(Len(requests) - 1) : requests[k].ok
    /\ epc = "threw"
    /\ eResult.kind = "threw"
    /\ "value" \notin DOMAIN eResult

\* the second batch failed after the first had given its 90 vectors
EmbedFailureAbortsWitness ==
  /\ epc = "threw"
  /\ Len(requests) = 2
  /\ requests[1].ok /\ ~requests[2].ok
  /\ Len(allEmbeddings) = BATCH_SIZE
  /\ Len(eTexts) > 2 * BATCH_SIZE

\* ------------------------------------------------------------------------
\* Properties of getOrCreateIndex
\* ------------------------------------------------------------------------

\* the createIndex requests a call made
CreatesOf(call) == {k \in 1..Len(creates) : creates[k].call = call}

\* C14: over calls made one after another, every createIndex request is for
\* a name the service does not hold at that time, and no name has an index
\* created twice; a call that found the name in its listing made no create
\* request; and a call that did not find it returned only after its one
\* create request, with the index ready.
IndexIdempotent ==
  /\ \A k \in 1..Len(creates) : creates[k].absent
  /\ \A k, l \in 1..Len(creates) :
       (creates[k].accepted /\ creates[l].accepted /\ creates[k].name = creates[l].name)
         => k = l
  /\ \A i \in 1..Len(gLog) :
       /\ gLog[i].existing => CreatesOf(gLog[i].call) = {}
       /\ (gLog[i].kind = "returned" /\ ~gLog[i].existing) =>
            /\ Cardinality(CreatesOf(gLog[i].call)) = 1
            /\ gLog[i].ready
            /\ indexes[gLog[i].name] = IndexOf(TRUE)

\* a first call created the index and waited for it; two more calls with the
\* same name returned it without a create request
IndexIdempotentWitness ==
  /\ Len(gLog) = 3
  /\ Len(creates) = 1
  /\ \A i \in 1..3 : gLog[i].kind = "returned" /\ gLog[i].name = "realvtuber"
  /\ ~gLog[1].existing /\ gLog[2].existing /\ gLog[3].existing

\* ------------------------------------------------------------------------
\* Properties of upsertVectors
\* ------------------------------------------------------------------------

\* C15: no vector whose length differs from the index's dimension is sent to
\* the index: every upsert request the index receives carries a vector of
\* the configured dimension.
UpsertChecksDimension ==
  lastUpsert.sent => lastUpsert.length = Dimension

\* ------------------------------------------------------------------------
\* Properties of processFile's failures and of PDF parsing
\* ------------------------------------------------------------------------

\* a file whose text is blank after trimming
BlankEntry(entry) == entry.kind = "text" /\ trim(entry.text) = <<>>

\* C16: a call of processFile on a file that is absent from the uploads
\* folder, or whose text is blank after trimming, throws, and writes neither
\* a manifest nor a chunk side-file: the processed area stays as it was.
ProcessFailsBeforePersist ==
  [][LET called == single' # single \/ outcomes' # outcomes
         r == IF single' # single THEN single'.result ELSE outcomes'[Len(outcomes')]
     IN (called /\ (uploads[r.fileName] = Absent \/ BlankEntry(uploads[r.fileName])))
          => /\ ~r.ok
             /\ processed' = processed
             /\ chunkFiles' = chunkFiles]_vars

\* a file processed once was replaced by a blank one and processed again:
\* the second call threw, and the first call's manifest and chunks are there
ProcessFailsBeforePersistWitness ==
  /\ single # NoCall /\ single.result.ok
  /\ outcomes # <<>> /\ ~outcomes[1].ok
  /\ BlankEntry(uploads[single.result.fileName])
  /\ outcomes[1].error = "No text content found in file"
  /\ processed[single.result.fileName] = single.result.doc
  /\ chunkFiles # <<>>

\* what a PDF's parsing ran into
Degraded(entry) ==
  ~entry.available \/ ~entry.readable \/ ~entry.importable \/ ~entry.extraction.ok

Contains(t, atom) == \E k \in 1..Len(t) : t[k] = atom

ParseNeverBlank ==
  \A f \in DOMAIN uploads :
    (single # NoCall /\ single.result.fileName = f /\ uploads[f].kind = "pdf") =>
      /\ trim(parsePDF(f, uploads[f]).text) # <<>>
      /\ single.result.error # "No text content found in file"

\* ------------------------------------------------------------------------
\* Properties of the routes
\* ------------------------------------------------------------------------

\* the files a response body reports with an error
ReportedSkipped(body) ==
  IF "documents" \in DOMAIN body
    THEN {[fileName |-> body.documents[i].fileName,
           error |-> Field(body.documents[i], "error", "")] :
            i \in 1..Len(body.documents)}
    ELSE {}

RECURSIVE SumOk(_)
\* the chunks of the files whose processing succeeded
SumOk(outs) ==
  IF outs = <<>> THEN 0
  ELSE (IF Head(outs).ok THEN Head(outs).doc.totalChunks ELSE 0) + SumOk(Tail(outs))

\* C19: the response to a process_all request counts the files and chunks
\* of the successes only, and names every file that was skipped because its
\* processing failed, together with its error.
ProcessAllReportsSkipped ==
  (route = "process-simple" /\ ppc = "done" /\ response # Pending) =>
    /\ response.body.processedFiles = Cardinality({i \in 1..Len(outcomes) : outcomes[i].ok})
    /\ response.body.processedChunks = SumOk(outcomes)
    /\ \A i \in 1..Len(outcomes) :
         ~outcomes[i].ok =>
           [fileName |-> outcomes[i].fileName, error |-> outcomes[i].error]
             \in ReportedSkipped(response.body)

\* C20: in both script-generation routes, an empty context list from
\* getRelevantContext is not an error: the route does not answer 404 (or any
\* error status on account of the empty list) and hands the script generator
\* a context that is not empty.
ScriptEmptyContextFallback ==
  (route \in ScriptRoutes /\ response # Pending
     /\ result.kind = "returned" /\ result.value = <<>>) =>
    /\ response.status # 404
    /\ scriptContext # <<>>

\* ------------------------------------------------------------------------
\* Properties of the persisted artifacts
\* ------------------------------------------------------------------------

\* C21: after processFile succeeded for a file, whatever its name, the
\* manifest is retrievable: getProcessedDocument returns the document
\* processFile returned, and listProcessedDocuments includes it.
ManifestRetrievable ==
  (response # Pending /\ response.kind = "retrieved" /\ single.result.ok) =>
    /\ response.got = single.result.doc
    /\ single.result.doc \in response.listed

\* ------------------------------------------------------------------------
\* Further properties of chunkText
\* ------------------------------------------------------------------------

\* C22: for chunkSize >= 1 and any overlap, the number of window iterations
\* is at most c * (len(text) / max(1, chunkSize - overlap)) + c for a constant
\* c; stated for c = 3, with both sides multiplied by max(1, chunkSize - overlap).
IterationsProportional ==
  chunkSize >= 1 =>
    LET d == Max(1, chunkSize - overlap)
    IN Len(windows) * d <= 3 * Len(text) + 3 * d

\* C23: a non-final window (start + chunkSize < len) ends just after the last
\* boundary b at or before start + chunkSize when b >= start + chunkSize * 0.5,
\* and at start + chunkSize otherwise.
SnapsFromHalfWindow ==
  chunkSize >= 1 =>
    \A i \in 1..Len(windows) :
      LET w == windows[i]
          b == BreakPoint(text, w.start + chunkSize)
      IN w.start + chunkSize < Len(text) =>
           w.end = IF 2 * b >= 2 * w.start + chunkSize
                     THEN b + 1
                     ELSE w.start + chunkSize

\* C24: for chunkSize >= 1 and 0 <= overlap < chunkSize, once a chunk that
\* ends at the end of the text was emitted, no further chunk is emitted.
EndWindowIsLast ==
  (chunkSize >= 1 /\ 0 <= overlap /\ overlap < chunkSize) =>
    \A i, j \in 1..Len(windows) :
      (windows[i].end = Len(text) /\ windows[i].chunk # <<>> /\ i < j) =>
        windows[j].chunk = <<>>

\* ------------------------------------------------------------------------
\* Further properties of queryVectors
\* ------------------------------------------------------------------------
FailedBeforeLast ==
  {i \in 1..Len(attemptLog) :
     attemptLog[i].kind # "ok" /\ attemptLog[i].attempt < retries}

\* C25: after failed attempt k < retries queryVectors waits 2^k seconds
\* before it starts attempt k + 1, and it does not wait after the final
\* failed attempt; with the default 3 attempts the waits are 2 s and 4 s.
BackoffSchedule ==
  /\ \A k \in 1..Len(waits) : waits[k] = (2 ^ k) * 1000
  /\ Len(waits) = Cardinality(FailedBeforeLast)
  /\ rpc = "backoff" => (attempt < retries /\ Len(waits) = attempt)
  /\ rpc = "loop" => Len(waits) = attempt - 1
  /\ (qResult # Pending /\ qResult.kind = "threw") =>
        /\ Len(waits) = retries - 1
        /\ retries = DefaultRetries => waits = <<2000, 4000>>

BackoffScheduleWitness ==
  /\ caller = "query" /\ retries = DefaultRetries
  /\ qResult # Pending /\ qResult.kind = "threw"
  /\ Len(attemptLog) = 3
  /\ waits = <<2000, 4000>>

\* C28: a query that ended by the timeout is no longer outstanding when the
\* next attempt starts or when the call returns or throws, so that at most
\* one query of the call is in flight at any time.
NoQueryLeftRunning ==
  rpc \in {"loop", "returned", "threw"} => inflight = {}

\* ------------------------------------------------------------------------
\* Properties of ingestion
\* ------------------------------------------------------------------------
IngestIds == {makeId(file, i) : file \in {"d.pdf", "e.pdf"}, i \in 0..1}

\* the file and the chunk text an ingested id stands for
IngestedFile(id) == CHOOSE file \in IngestFiles : \E i \in 0..1 : id = makeId(file, i)

IngestedText(id) ==
  LET file == IngestedFile(id)
      i == CHOOSE k \in 0..1 : id = makeId(file, k)
  IN SplitChunks(file)[i + 1]

\* the matches getRelevantContext keeps, in the order of its contexts
KeptMatches ==
  IF qResult # Pending /\ qResult.kind = "returned" /\ qResult.value # Undefined
    THEN SelectSeq(FormatMatches(qResult.value), ScoreGate)
    ELSE <<>>

\* what a returned snippet shows for an ingested chunk
IngestedSnippetLabelled ==
  (caller = "context" /\ result # Pending /\ result.kind = "returned") =>
    \A i \in 1..Len(result.value) :
      KeptMatches[i].id \in IngestIds =>
        result.value[i] = "[Source: " \o IngestedFile(KeptMatches[i].id) \o "]\n"
                            \o Preview(IngestedText(KeptMatches[i].id))

\* C26: every record ingestion stored carries the file name and the content
\* preview under metadata.fileName and metadata.content, with sessionId and a
\* position marker; and the snippet getRelevantContext returns for an ingested
\* chunk is labelled with the chunk's file name and holds its preview.
IngestedMetadataRetrievable ==
  /\ \A r \in vectorIndex :
       r.id \in IngestIds =>
         /\ {"fileName", "content", "sessionId"} \subseteq DOMAIN r.metadata
         /\ r.metadata.fileName = IngestedFile(r.id)
         /\ r.metadata.content = Preview(IngestedText(r.id))
  /\ IngestedSnippetLabelled

\* ------------------------------------------------------------------------
\* What processFile leaves in the processed folder
\* ------------------------------------------------------------------------
ChunkIdSet(doc) == {doc.chunks[i].id : i \in 1..Len(doc.chunks)}

\* C27: after processFile ran a second time for the same sessionId and
\* fileName, whatever the new content, the persisted manifest is the second
\* run's and the chunk side-files stored for the file (the only file of the
\* folder) are exactly the chunks that manifest lists.
ReprocessReplacesWholesale ==
  BothProcessed =>
    LET f == single.result.fileName
        d2 == outcomes[1].doc
    IN /\ f \in DOMAIN processed /\ processed[f] = d2
       /\ DOMAIN chunkFiles = ChunkIdSet(d2)
       /\ \A i \in 1..Len(d2.chunks) : chunkFiles[d2.chunks[i].id] = d2.chunks[i]

\* C30: when processFile failed for a file, for whatever reason, no manifest
\* of that run is left for it; so every manifest listProcessedDocuments
\* returns belongs to a run that succeeded and every chunk it lists has its
\* side-file.
NoManifestOfFailedRun ==
  single # NoCall =>
    /\ ~single.result.ok => single.result.fileName \notin DOMAIN processed
    /\ \A doc \in listProcessedDocuments(processed) :
         /\ single.result.ok /\ doc = single.result.doc
         /\ ChunkIdSet(doc) \subseteq DOMAIN chunkFiles

\* ------------------------------------------------------------------------
\* Overlapping calls of getOrCreateIndex
\* ------------------------------------------------------------------------

\* C29: when two calls for the same name, which does not exist yet, both
\* obtain the listing before either creates, at most one create request for
\* the name is issued (none after the service accepted one), and neither
\* call fails on a create request for a name the service already holds.
InterleavedCallsCreateOnce ==
  /\ \A k, l \in 1..Len(creates) :
       (k < l /\ creates[k].name = creates[l].name) => ~creates[k].accepted
  /\ \A i \in 1..Len(gLog) :
       gLog[i].kind = "threw" =>
         \A k \in CreatesOf(gLog[i].call) : creates[k].absent

====
